---- MODULE Spec2Model ----
(***************************************************************************)
(* Turn-resolution core of the Bushido card duel: the rules engine         *)
(* (games/bushido/rules.py), the resource manager (resource_manager.py)    *)
(* and the game object that applies a resolved turn to the game state      *)
(* (games/bushido/game.py).                                                *)
(*                                                                         *)
(* Python values are represented as follows.  Enum members are their       *)
(* string values.  None is the string "None".  A tuple of action cards is  *)
(* a sequence.  A dataclass instance or a dict is a record; the optional   *)
(* dict key "honor_violation" is the field honor_violation whose value     *)
(* "None" stands for "key absent".                                         *)
(***************************************************************************)
EXTENDS Integers, Sequences, FiniteSets, TLC

(* ------------------------------ bounds --------------------------------- *)

\* longest action sequence a decision carries (the engine accepts any length)
MaxCards == 2

\* number of turns played in the multi-turn specification
MaxTurns == 3

(* ------------------------- program constants --------------------------- *)

DEFAULT_HEALTH == 3
MAX_MOMENTUM == 3
MAX_BALANCE == 3
HONOR_RESTRICTION_TURN == 3
MAX_TURNS == 10
DEFAULT_STRENGTH == 2
DEFAULT_DEFENSE == 2

None == "None"

\* the value None where a turn result is expected
NoTurn == [absent |-> TRUE]

APART == "Apart"
SWORD == "Sword Range"
CLOSE == "Close Combat"
Position == {APART, SWORD, CLOSE}

ATTACK == "Attack"
DEFEND == "Defend"
ADVANCE == "Advance"
RETREAT == "Retreat"
INSIGHT == "Insight"
ActionCard == {ATTACK, DEFEND, ADVANCE, RETREAT, INSIGHT}

CHALLENGER == "Challenger"
DEFENDER == "Defender"

\* list(TECHNIQUE_CARDS.keys())
TECHNIQUE_CARDS ==
    <<"Tsubame Gaeshi", "Mizu no Kokoro", "Kuzushi", "Ai-Uchi",
      "Irimi", "Ma-ai", "Mushin", "Nagashi">>

(* ----------------------------- builtins -------------------------------- *)

max(a, b) == IF a >= b THEN a ELSE b
min(a, b) == IF a <= b THEN a ELSE b

\* Python's `card in actions`
Contains(actions, card) == \E i \in DOMAIN actions : actions[i] = card

(* ----------------------------- data model ------------------------------ *)

\* PlayerState(role=..., momentum=..., balance=...) with the dataclass defaults
PlayerState(role, momentum, balance) ==
    [role |-> role,
     health |-> DEFAULT_HEALTH,
     momentum |-> momentum,
     balance |-> balance,
     strength |-> DEFAULT_STRENGTH,
     defense |-> DEFAULT_DEFENSE,
     technique_cards |-> << >>]

\* GameState(game_id, position=APART, challenger, defender): turn 0, no
\* history, empty metric series
GameState(challenger, defender) ==
    [turn_number |-> 0,
     position |-> APART,
     challenger |-> challenger,
     defender |-> defender,
     turn_history |-> << >>,
     tension_levels |-> << >>,
     choice_difficulty |-> << >>,
     enjoyment_scores |-> << >>]

\* a decision as the engine reads it: the "actions" and "technique" keys
MakeDecision(actions, technique) == [actions |-> actions, technique |-> technique]

\* every action sequence of at most MaxCards cards, duplicates and mixed
\* movement cards included
ActionSeqs == UNION {[1..n -> ActionCard] : n \in 0..MaxCards}

(* --------------------------- resource manager -------------------------- *)

adjust_momentum(player, amount) ==
    [player EXCEPT !.momentum = max(0, min(MAX_MOMENTUM, player.momentum + amount))]

adjust_balance(player, amount) ==
    [player EXCEPT !.balance = max(0, min(MAX_BALANCE, player.balance + amount))]

\* faulty variant: health is not floored at 0
take_damage_unclamped(player, amount) ==
    [player EXCEPT !.health = player.health - amount]

take_damage(player, amount) ==
    [player EXCEPT !.health = max(0, player.health - amount)]

\* the for loop of apply_action_effects: one iteration per card, in order
RECURSIVE apply_action_loop(_, _)
apply_action_loop(player, actions) ==
    IF actions = << >> THEN player
    ELSE LET action == Head(actions)
             next == IF action = ADVANCE
                       THEN adjust_balance(adjust_momentum(player, 1), -1)
                     ELSE IF action = RETREAT
                       THEN adjust_momentum(player, -1)
                     ELSE player
         IN apply_action_loop(next, Tail(actions))

\* has_movement after the loop
has_movement(actions) == Contains(actions, ADVANCE) \/ Contains(actions, RETREAT)

\* faulty variant: an empty decision counts as staying
apply_action_effects_stay_on_empty(player, actions) ==
    LET looped == apply_action_loop(player, actions)
    IN IF ~has_movement(actions)
         THEN adjust_balance(looped, 1)
         ELSE looped

apply_action_effects(player, actions) ==
    LET looped == apply_action_loop(player, actions)
    IN IF ~has_movement(actions) /\ actions # << >>
         THEN adjust_balance(looped, 1)
         ELSE looped

\* faulty variant: the defender's action effects land on the challenger
update_both_players_effects_on_challenger(challenger, defender, challenger_actions, defender_actions, damage_dealt) ==
    LET c1 == take_damage(challenger, damage_dealt.challenger)
        d1 == take_damage(defender, damage_dealt.defender)
    IN [challenger |-> apply_action_effects(apply_action_effects(c1, challenger_actions),
                                            defender_actions),
        defender |-> d1]

\* returns the two mutated player states
update_both_players(challenger, defender, challenger_actions, defender_actions, damage_dealt) ==
    LET c1 == take_damage(challenger, damage_dealt.challenger)
        d1 == take_damage(defender, damage_dealt.defender)
    IN [challenger |-> apply_action_effects(c1, challenger_actions),
        defender |-> apply_action_effects(d1, defender_actions)]

(* ------------- the original update logic (bushido_test_agent.py) -------- *)

\* the for loop of _update_game_state over one player's actions
RECURSIVE original_action_loop(_, _)
original_action_loop(player, actions) ==
    IF actions = << >> THEN player
    ELSE LET action == Head(actions)
             next == IF action = ADVANCE
                       THEN [player EXCEPT !.momentum = min(3, player.momentum + 1),
                                           !.balance = max(0, player.balance - 1)]
                     ELSE IF action = RETREAT
                       THEN [player EXCEPT !.momentum = max(0, player.momentum - 1)]
                     ELSE player
         IN original_action_loop(next, Tail(actions))

\* one player's share of _update_game_state: the damage is subtracted, the
\* loop runs, and an empty action sequence gains 1 balance
original_update_player(player, actions, damage) ==
    LET hit == [player EXCEPT !.health = player.health - damage]
        looped == original_action_loop(hit, actions)
    IN IF actions = << >>
         THEN [looped EXCEPT !.balance = min(3, looped.balance + 1)]
         ELSE looped

\* GameMasterAgent._update_game_state of the original: the game state after
\* the call
_update_game_state(gs, result) ==
    [gs EXCEPT
        !.challenger = original_update_player(gs.challenger,
                                              result.challenger_actions,
                                              result.damage_dealt.challenger),
        !.defender = original_update_player(gs.defender,
                                            result.defender_actions,
                                            result.damage_dealt.defender)]

(* ----------------------------- rules engine ---------------------------- *)

\* faulty variant: the extraction loop does not stop at the first movement
\* card, so the last one is kept
first_move_without_break(actions) ==
    LET moves == {i \in DOMAIN actions : actions[i] \in {ADVANCE, RETREAT}}
    IN IF moves = {} THEN None
       ELSE actions[CHOOSE i \in moves : \A j \in moves : i >= j]

\* the extraction loops of resolve_position: the first Advance or Retreat of
\* the sequence, None when it has neither
first_move(actions) ==
    LET moves == {i \in DOMAIN actions : actions[i] \in {ADVANCE, RETREAT}}
    IN IF moves = {} THEN None
       ELSE actions[CHOOSE i \in moves : \A j \in moves : i <= j]

\* faulty variant: an advance closes the gap even against a retreat
resolve_position_apart_any_advance(challenger_move, defender_move) ==
    IF challenger_move = ADVANCE \/ defender_move = ADVANCE
      THEN SWORD
      ELSE APART

\* faulty variant: two advances at Apart close the whole distance
resolve_position_apart_double_advance(challenger_move, defender_move) ==
    IF challenger_move = ADVANCE /\ defender_move = ADVANCE
      THEN CLOSE
    ELSE IF /\ (challenger_move = ADVANCE \/ defender_move = ADVANCE)
            /\ (challenger_move # RETREAT /\ defender_move # RETREAT)
      THEN SWORD
      ELSE APART

\* branch current_pos == Position.APART
resolve_position_apart(challenger_move, defender_move) ==
    IF /\ (challenger_move = ADVANCE \/ defender_move = ADVANCE)
       /\ (challenger_move # RETREAT /\ defender_move # RETREAT)
      THEN SWORD
      ELSE APART

\* faulty variant: only a double advance closes to Close
resolve_position_sword_both_advance(challenger_move, defender_move) ==
    IF challenger_move = ADVANCE /\ defender_move = ADVANCE THEN CLOSE
    ELSE IF challenger_move = RETREAT /\ defender_move = RETREAT THEN APART
    ELSE IF challenger_move = RETREAT \/ defender_move = RETREAT THEN APART
    ELSE SWORD

\* faulty variant: a single retreat succeeds only against a non-advancing opponent
resolve_position_sword_unopposed(challenger_move, defender_move) ==
    IF challenger_move = ADVANCE /\ defender_move = ADVANCE THEN CLOSE
    ELSE IF challenger_move = ADVANCE /\ defender_move # RETREAT THEN CLOSE
    ELSE IF defender_move = ADVANCE /\ challenger_move # RETREAT THEN CLOSE
    ELSE IF challenger_move = RETREAT /\ defender_move = RETREAT THEN APART
    ELSE IF challenger_move = RETREAT /\ defender_move # ADVANCE THEN APART
    ELSE IF defender_move = RETREAT /\ challenger_move # ADVANCE THEN APART
    ELSE SWORD

\* faulty variant: the defender's lone advance is not examined
resolve_position_sword_challenger_only(challenger_move, defender_move) ==
    IF challenger_move = ADVANCE /\ defender_move = ADVANCE THEN CLOSE
    ELSE IF challenger_move = ADVANCE /\ defender_move # RETREAT THEN CLOSE
    ELSE IF challenger_move = RETREAT /\ defender_move = RETREAT THEN APART
    ELSE IF challenger_move = RETREAT \/ defender_move = RETREAT THEN APART
    ELSE SWORD

\* branch current_pos == Position.SWORD
resolve_position_sword(challenger_move, defender_move) ==
    IF challenger_move = ADVANCE /\ defender_move = ADVANCE THEN CLOSE
    ELSE IF challenger_move = ADVANCE /\ defender_move # RETREAT THEN CLOSE
    ELSE IF defender_move = ADVANCE /\ challenger_move # RETREAT THEN CLOSE
    ELSE IF challenger_move = RETREAT /\ defender_move = RETREAT THEN APART
    ELSE IF challenger_move = RETREAT \/ defender_move = RETREAT THEN APART
    ELSE SWORD

\* faulty variant: a single retreat succeeds even against an advance
resolve_position_close_any_retreat(challenger_move, defender_move) ==
    IF challenger_move = RETREAT /\ defender_move = RETREAT THEN APART
    ELSE IF challenger_move = RETREAT THEN SWORD
    ELSE IF defender_move = RETREAT THEN SWORD
    ELSE CLOSE

\* branch current_pos == Position.CLOSE
resolve_position_close(challenger_move, defender_move) ==
    IF challenger_move = RETREAT /\ defender_move = RETREAT THEN APART
    ELSE IF challenger_move = RETREAT /\ defender_move # ADVANCE THEN SWORD
    ELSE IF defender_move = RETREAT /\ challenger_move # ADVANCE THEN SWORD
    ELSE CLOSE

resolve_position(current_pos, challenger_actions, defender_actions) ==
    LET challenger_move == first_move(challenger_actions)
        defender_move == first_move(defender_actions)
    IN IF current_pos = APART
         THEN resolve_position_apart(challenger_move, defender_move)
       ELSE IF current_pos = SWORD
         THEN resolve_position_sword(challenger_move, defender_move)
       ELSE IF current_pos = CLOSE
         THEN resolve_position_close(challenger_move, defender_move)
       ELSE current_pos

\* faulty variant: no bonus at Close
calculate_attack_value_no_close(player, actions, position) ==
    player.strength + (IF Contains(actions, ADVANCE) THEN 1 ELSE 0)

calculate_attack_value(player, actions, position) ==
    player.strength
      + (IF Contains(actions, ADVANCE) THEN 1 ELSE 0)
      + (IF position = CLOSE THEN 1 ELSE 0)

calculate_defense_value(player, actions) ==
    IF ~Contains(actions, DEFEND) THEN 0
    ELSE player.defense + (IF Contains(actions, RETREAT) THEN 1 ELSE 0)

\* faulty variant: the challenger strikes first and a defender it brings to 0 does
\* not strike back
resolve_combat_first_strike(challenger, defender, challenger_actions, defender_actions, position) ==
    LET challenger_attacking == Contains(challenger_actions, ATTACK)
        defender_attacking == Contains(defender_actions, ATTACK)
        to_defender ==
            IF challenger_attacking
              THEN max(0, calculate_attack_value(challenger, challenger_actions, position)
                            - calculate_defense_value(defender, defender_actions))
              ELSE 0
    IN [defender |-> to_defender,
        challenger |->
            IF defender_attacking /\ to_defender < defender.health
              THEN max(0, calculate_attack_value(defender, defender_actions, position)
                            - calculate_defense_value(challenger, challenger_actions))
              ELSE 0]

resolve_combat(challenger, defender, challenger_actions, defender_actions, position) ==
    LET challenger_attacking == Contains(challenger_actions, ATTACK)
        defender_attacking == Contains(defender_actions, ATTACK)
    IN IF ~(challenger_attacking \/ defender_attacking)
         THEN [challenger |-> 0, defender |-> 0]
       ELSE [defender |->
                IF challenger_attacking
                  THEN max(0, calculate_attack_value(challenger, challenger_actions, position)
                                - calculate_defense_value(defender, defender_actions))
                  ELSE 0,
             challenger |->
                IF defender_attacking
                  THEN max(0, calculate_attack_value(defender, defender_actions, position)
                                - calculate_defense_value(challenger, challenger_actions))
                  ELSE 0]

\* faulty variant: the restriction already applies on the restriction turn
check_honor_violation_from_restriction_turn(turn_number, actions) ==
    IF turn_number >= HONOR_RESTRICTION_TURN
      THEN Contains(actions, RETREAT)
      ELSE FALSE

check_honor_violation(turn_number, actions) ==
    IF turn_number > HONOR_RESTRICTION_TURN
      THEN Contains(actions, RETREAT)
      ELSE FALSE

\* faulty variant: combat is resolved unless the position before the move
\* was Apart
resolve_turn_combat_before_move(turn_number, position, challenger, defender, challenger_decision, defender_decision) ==
    LET challenger_actions == challenger_decision.actions
        defender_actions == defender_decision.actions
        new_position == resolve_position(position, challenger_actions, defender_actions)
        damage == IF position # APART
                    THEN resolve_combat(challenger, defender,
                                        challenger_actions, defender_actions, new_position)
                    ELSE [challenger |-> 0, defender |-> 0]
        marker1 == IF check_honor_violation(turn_number, challenger_actions)
                     THEN CHALLENGER ELSE None
        marker2 == IF check_honor_violation(turn_number, defender_actions)
                     THEN DEFENDER ELSE marker1
        result == [turn |-> turn_number,
                   challenger_actions |-> challenger_actions,
                   defender_actions |-> defender_actions,
                   challenger_technique |-> challenger_decision.technique,
                   defender_technique |-> defender_decision.technique,
                   position_before |-> position,
                   damage_dealt |-> damage,
                   position_after |-> new_position,
                   honor_violation |-> marker2]
    IN <<result, new_position>>

\* faulty variant: the defender's marker does not replace the challenger's
resolve_turn_first_marker_kept(turn_number, position, challenger, defender, challenger_decision, defender_decision) ==
    LET challenger_actions == challenger_decision.actions
        defender_actions == defender_decision.actions
        new_position == resolve_position(position, challenger_actions, defender_actions)
        damage == IF new_position # APART
                    THEN resolve_combat(challenger, defender,
                                        challenger_actions, defender_actions, new_position)
                    ELSE [challenger |-> 0, defender |-> 0]
        marker1 == IF check_honor_violation(turn_number, challenger_actions)
                     THEN CHALLENGER ELSE None
        marker2 == IF marker1 = None /\ check_honor_violation(turn_number, defender_actions)
                     THEN DEFENDER ELSE marker1
        result == [turn |-> turn_number,
                   challenger_actions |-> challenger_actions,
                   defender_actions |-> defender_actions,
                   challenger_technique |-> challenger_decision.technique,
                   defender_technique |-> defender_decision.technique,
                   position_before |-> position,
                   damage_dealt |-> damage,
                   position_after |-> new_position,
                   honor_violation |-> marker2]
    IN <<result, new_position>>

\* faulty variant: a declared Kuzushi adds 2 to the challenger's attack when
\* advancing
resolve_turn_kuzushi_applied(turn_number, position, challenger, defender, challenger_decision, defender_decision) ==
    LET challenger_actions == challenger_decision.actions
        defender_actions == defender_decision.actions
        new_position == resolve_position(position, challenger_actions, defender_actions)
        plain == IF new_position # APART
                   THEN resolve_combat(challenger, defender,
                                       challenger_actions, defender_actions, new_position)
                   ELSE [challenger |-> 0, defender |-> 0]
        damage == IF /\ challenger_decision.technique = "Kuzushi"
                     /\ Contains(challenger_actions, ADVANCE)
                     /\ Contains(challenger_actions, ATTACK)
                     /\ new_position # APART
                    THEN [plain EXCEPT !.defender = @ + 2]
                    ELSE plain
        marker1 == IF check_honor_violation(turn_number, challenger_actions)
                     THEN CHALLENGER ELSE None
        marker2 == IF check_honor_violation(turn_number, defender_actions)
                     THEN DEFENDER ELSE marker1
        result == [turn |-> turn_number,
                   challenger_actions |-> challenger_actions,
                   defender_actions |-> defender_actions,
                   challenger_technique |-> challenger_decision.technique,
                   defender_technique |-> defender_decision.technique,
                   position_before |-> position,
                   damage_dealt |-> damage,
                   position_after |-> new_position,
                   honor_violation |-> marker2]
    IN <<result, new_position>>

\* returns the pair <<result, new_position>>
resolve_turn(turn_number, position, challenger, defender, challenger_decision, defender_decision) ==
    LET challenger_actions == challenger_decision.actions
        defender_actions == defender_decision.actions
        new_position == resolve_position(position, challenger_actions, defender_actions)
        damage == IF new_position # APART
                    THEN resolve_combat(challenger, defender,
                                        challenger_actions, defender_actions, new_position)
                    ELSE [challenger |-> 0, defender |-> 0]
        marker1 == IF check_honor_violation(turn_number, challenger_actions)
                     THEN CHALLENGER ELSE None
        marker2 == IF check_honor_violation(turn_number, defender_actions)
                     THEN DEFENDER ELSE marker1
        result == [turn |-> turn_number,
                   challenger_actions |-> challenger_actions,
                   defender_actions |-> defender_actions,
                   challenger_technique |-> challenger_decision.technique,
                   defender_technique |-> defender_decision.technique,
                   position_before |-> position,
                   damage_dealt |-> damage,
                   position_after |-> new_position,
                   honor_violation |-> marker2]
    IN <<result, new_position>>

\* faulty variant: the honor marker is consulted before the healths
check_victory_honor_first(challenger, defender, last_turn) ==
    IF last_turn # NoTurn /\ last_turn.honor_violation = CHALLENGER THEN "DEFENDER"
    ELSE IF last_turn # NoTurn /\ last_turn.honor_violation = DEFENDER THEN "CHALLENGER"
    ELSE IF challenger.health <= 0 /\ defender.health <= 0 THEN "DRAW"
    ELSE IF challenger.health <= 0 THEN "DEFENDER"
    ELSE IF defender.health <= 0 THEN "CHALLENGER"
    ELSE None

\* faulty variant: only the healths decide
check_victory_health_only(challenger, defender, last_turn) ==
    IF challenger.health <= 0 /\ defender.health <= 0 THEN "DRAW"
    ELSE IF challenger.health <= 0 THEN "DEFENDER"
    ELSE IF defender.health <= 0 THEN "CHALLENGER"
    ELSE None

\* last_turn is NoTurn or a turn result
check_victory(challenger, defender, last_turn) ==
    IF challenger.health <= 0 /\ defender.health <= 0 THEN "DRAW"
    ELSE IF challenger.health <= 0 THEN "DEFENDER"
    ELSE IF defender.health <= 0 THEN "CHALLENGER"
    ELSE IF last_turn # NoTurn /\ last_turn.honor_violation # None
      THEN IF last_turn.honor_violation = CHALLENGER THEN "DEFENDER"
           ELSE IF last_turn.honor_violation = DEFENDER THEN "CHALLENGER"
           ELSE None
    ELSE None

\* faulty variant: the turn is resolved under the number of the turn before
get_next_state_uncounted(current_state, challenger_decision, defender_decision) ==
    LET resolved == resolve_turn(current_state.turn_number,
                                 current_state.position,
                                 current_state.challenger,
                                 current_state.defender,
                                 challenger_decision,
                                 defender_decision)
        turn_result == resolved[1]
        new_position == resolved[2]
        players == update_both_players(current_state.challenger,
                                       current_state.defender,
                                       turn_result.challenger_actions,
                                       turn_result.defender_actions,
                                       turn_result.damage_dealt)
    IN [current_state EXCEPT
            !.turn_number = current_state.turn_number + 1,
            !.position = new_position,
            !.challenger = players.challenger,
            !.defender = players.defender,
            !.turn_history = Append(current_state.turn_history, turn_result)]

\* deep copy, resolve with turn_number + 1, then update the copy
get_next_state(current_state, challenger_decision, defender_decision) ==
    LET resolved == resolve_turn(current_state.turn_number + 1,
                                 current_state.position,
                                 current_state.challenger,
                                 current_state.defender,
                                 challenger_decision,
                                 defender_decision)
        turn_result == resolved[1]
        new_position == resolved[2]
        players == update_both_players(current_state.challenger,
                                       current_state.defender,
                                       turn_result.challenger_actions,
                                       turn_result.defender_actions,
                                       turn_result.damage_dealt)
    IN [current_state EXCEPT
            !.turn_number = current_state.turn_number + 1,
            !.position = new_position,
            !.challenger = players.challenger,
            !.defender = players.defender,
            !.turn_history = Append(current_state.turn_history, turn_result)]

(* ------------------------------ game object ---------------------------- *)

\* BushidoGame.initialize_players: the challenger starts with momentum 1,
\* the defender with balance 1
initialize_players ==
    [challenger |-> PlayerState(CHALLENGER, 1, 0),
     defender |-> PlayerState(DEFENDER, 0, 1)]

\* faulty variant: the draft hands out neighbouring cards
assign_techniques_overlapping(players, shuffled) ==
    LET available_techniques == SubSeq(shuffled, 1, Len(shuffled) - 1)
    IN [challenger |-> [players.challenger EXCEPT !.technique_cards =
                           <<available_techniques[1], available_techniques[2]>>],
        defender |-> [players.defender EXCEPT !.technique_cards =
                           <<available_techniques[2], available_techniques[3]>>]]

\* BushidoGame._assign_techniques on the list as random.shuffle left it: the
\* last card is removed, the challenger drafts the first and third, the
\* defender the second and fourth
assign_techniques(players, shuffled) ==
    LET available_techniques == SubSeq(shuffled, 1, Len(shuffled) - 1)
    IN [challenger |-> [players.challenger EXCEPT !.technique_cards =
                           <<available_techniques[1], available_techniques[3]>>],
        defender |-> [players.defender EXCEPT !.technique_cards =
                           <<available_techniques[2], available_techniques[4]>>]]

\* every order random.shuffle can leave the list in
Shuffles ==
    {[i \in 1..Len(TECHNIQUE_CARDS) |-> TECHNIQUE_CARDS[p[i]]] :
        p \in Permutations(1..Len(TECHNIQUE_CARDS))}

initialize_game_state(player1, player2) == GameState(player1, player2)

\* BushidoGame.check_victory: the last history entry, None when there is none
game_check_victory(gs) ==
    LET last_turn == IF gs.turn_history # << >>
                       THEN gs.turn_history[Len(gs.turn_history)]
                       ELSE NoTurn
    IN check_victory(gs.challenger, gs.defender, last_turn)

\* BushidoGame.resolve_turn: the engine's result with the new position
\* stored under "new_position"
game_resolve_turn(gs, player1_decision, player2_decision) ==
    LET resolved == resolve_turn(gs.turn_number, gs.position, gs.challenger,
                                 gs.defender, player1_decision, player2_decision)
        result == resolved[1]
    IN [turn |-> result.turn,
        challenger_actions |-> result.challenger_actions,
        defender_actions |-> result.defender_actions,
        challenger_technique |-> result.challenger_technique,
        defender_technique |-> result.defender_technique,
        position_before |-> result.position_before,
        damage_dealt |-> result.damage_dealt,
        position_after |-> result.position_after,
        honor_violation |-> result.honor_violation,
        new_position |-> resolved[2]]

\* faulty variant: the players are left as they were
update_game_state_position_only(gs, result) ==
    [gs EXCEPT !.position = result.new_position,
               !.turn_history = Append(gs.turn_history, result)]

\* faulty variant: the position of the game state is not written
update_game_state_position_kept(gs, result) ==
    LET players == update_both_players(gs.challenger, gs.defender,
                                       result.challenger_actions,
                                       result.defender_actions,
                                       result.damage_dealt)
    IN [gs EXCEPT !.challenger = players.challenger,
                  !.defender = players.defender,
                  !.turn_history = Append(gs.turn_history, result)]

\* BushidoGame.update_game_state: position, both players, history
update_game_state(gs, result) ==
    LET players == update_both_players(gs.challenger, gs.defender,
                                       result.challenger_actions,
                                       result.defender_actions,
                                       result.damage_dealt)
    IN [gs EXCEPT !.position = result.new_position,
                  !.challenger = players.challenger,
                  !.defender = players.defender,
                  !.turn_history = Append(gs.turn_history, result)]

get_max_turns == MAX_TURNS

(* ---------------------------- metrics tracker -------------------------- *)

\* the metrics are fractions; the model holds them as whole numbers of
\* 1/Scale, which represents every value the tracker computes exactly
Scale == 240

AGGRESSIVE == "Aggressive - Prefers offensive tactics"
DEFENSIVE == "Defensive - Prioritizes survival"
CALCULATED == "Calculated - Focuses on optimal plays"

\* PlayerPersona(name, personality, risk_tolerance) with the dataclass
\* defaults: calm, confidence 0.5, tension threshold 0.7 (the name and the
\* risk tolerance are not modelled)
PlayerPersona(personality) ==
    [personality |-> personality,
     emotional_state |-> "calm",
     confidence_level |-> Scale \div 2,
     tension_threshold |-> (7 * Scale) \div 10]

\* (1.0 - health / 3.0 + min(turn_number / 5.0, 1.0)) / 2
calculate_tension(player_state, gs) ==
    LET health_pressure == Scale - (Scale \div 3) * player_state.health
        turn_pressure == min((Scale \div 5) * gs.turn_number, Scale)
    IN (health_pressure + turn_pressure) \div 2

\* 0.5, plus 0.3 for an aggressive persona attacking or a defensive one
\* defending, at most 1.0
calculate_enjoyment(personality, actions) ==
    LET enjoyment == Scale \div 2
        bonus == (3 * Scale) \div 10
    IN min(IF personality = AGGRESSIVE
             THEN (IF Contains(actions, ATTACK) THEN enjoyment + bonus ELSE enjoyment)
           ELSE IF personality = DEFENSIVE
             THEN (IF Contains(actions, DEFEND) THEN enjoyment + bonus ELSE enjoyment)
           ELSE enjoyment,
           Scale)

calculate_decision_metrics(player_state, personality, gs, actions) ==
    [tension |-> calculate_tension(player_state, gs),
     enjoyment |-> calculate_enjoyment(personality, actions),
     choice_difficulty |-> Scale \div 2]

\* the decision dict parse_response builds from the cards it read off the
\* response (the reasoning texts are not modelled)
parse_response(actions, technique, player_state, personality, gs) ==
    LET metrics == calculate_decision_metrics(player_state, personality, gs, actions)
    IN [actions |-> actions,
        technique |-> technique,
        tension |-> metrics.tension,
        enjoyment |-> metrics.enjoyment,
        choice_difficulty |-> metrics.choice_difficulty]

\* faulty variant: tension is looked at before the player's own health
update_emotional_state_tension_first(persona, player_state, observations) ==
    LET tension == observations.tension_level
        updated ==
            IF tension > persona.tension_threshold
              THEN [persona EXCEPT !.emotional_state = "tense",
                                   !.confidence_level = (@ * 9) \div 10]
            ELSE IF player_state.health = 1
              THEN [persona EXCEPT !.emotional_state = "desperate",
                                   !.confidence_level = (@ * 7) \div 10]
            ELSE IF observations.opponent_health = 1
              THEN [persona EXCEPT !.emotional_state = "excited",
                                   !.confidence_level = (@ * 12) \div 10]
            ELSE [persona EXCEPT !.emotional_state = "focused"]
    IN [updated EXCEPT !.confidence_level = max(Scale \div 10, min(Scale, @))]

\* returns the persona as the call leaves it; confidence is multiplied by
\* 0.7, 0.9 or 1.2 and clamped to 0.1..1.0 (the whole-number products are
\* exact for the confidence levels the specifications start from)
update_emotional_state(persona, player_state, observations) ==
    LET tension == observations.tension_level
        updated ==
            IF player_state.health = 1
              THEN [persona EXCEPT !.emotional_state = "desperate",
                                   !.confidence_level = (@ * 7) \div 10]
            ELSE IF tension > persona.tension_threshold
              THEN [persona EXCEPT !.emotional_state = "tense",
                                   !.confidence_level = (@ * 9) \div 10]
            ELSE IF observations.opponent_health = 1
              THEN [persona EXCEPT !.emotional_state = "excited",
                                   !.confidence_level = (@ * 12) \div 10]
            ELSE [persona EXCEPT !.emotional_state = "focused"]
    IN [updated EXCEPT !.confidence_level = max(Scale \div 10, min(Scale, @))]

\* BushidoGame.update_emotional_state: the observations are the decision's
\* tension and the opponent's health
game_update_emotional_state(persona, player_state, decision, opponent) ==
    update_emotional_state(persona, player_state,
                           [tension_level |-> decision.tension,
                            opponent_health |-> opponent.health])

\* faulty variant: the enjoyment score is not recorded
record_turn_metrics_without_enjoyment(gs, challenger_decision, defender_decision) ==
    [gs EXCEPT
        !.tension_levels =
            Append(@, (challenger_decision.tension + defender_decision.tension) \div 2),
        !.choice_difficulty =
            Append(@, (challenger_decision.choice_difficulty
                         + defender_decision.choice_difficulty) \div 2)]

\* one average of the two decisions' values appended to each series
record_turn_metrics(gs, challenger_decision, defender_decision) ==
    [gs EXCEPT
        !.tension_levels =
            Append(@, (challenger_decision.tension + defender_decision.tension) \div 2),
        !.choice_difficulty =
            Append(@, (challenger_decision.choice_difficulty
                         + defender_decision.choice_difficulty) \div 2),
        !.enjoyment_scores =
            Append(@, (challenger_decision.enjoyment
                         + defender_decision.enjoyment) \div 2)]

(* -------------------------------- tools -------------------------------- *)

RETREAT_ALLOWED == "Retreat"
RETREAT_FORBIDDEN == "Retreat (FORBIDDEN after turn 3 - honor violation!)"

\* faulty variant: the restriction turn itself is already labelled
get_available_actions_early(player_state, gs) ==
    LET turn == gs.turn_number
    IN IF turn < HONOR_RESTRICTION_TURN THEN RETREAT_ALLOWED ELSE RETREAT_FORBIDDEN

\* the Retreat line of the text get_available_actions returns
get_available_actions(player_state, gs) ==
    LET turn == gs.turn_number
    IN IF turn <= HONOR_RESTRICTION_TURN THEN RETREAT_ALLOWED ELSE RETREAT_FORBIDDEN

(* -------------------------------- state -------------------------------- *)

VARIABLES
    game_state,           \* the GameState object
    challenger_decision,  \* the challenger's decision passed to the engine
    defender_decision,    \* the defender's decision passed to the engine
    turn_result,          \* the pair returned by GameRulesEngine.resolve_turn, or
                          \* the dict returned by BushidoGame.resolve_turn
    winner,               \* the verdict returned by check_victory
    violation,            \* the boolean returned by check_honor_violation
    personas,             \* the two personas a simulation is run with
    iteration,            \* iterations of the simulation loop entered so far
    twin_state,           \* the GameState of a second run of the game that is
                          \* given the same cards under other technique names
    next_state,           \* the GameState returned by get_next_state
    available_actions,    \* the Retreat line of the text get_available_actions
                          \* returned to each player in the turn at hand
    pc                    \* "play"; "call", "returned", ... around a single call;
                          \* the simulation's position in its loop

vars == <<game_state, challenger_decision, defender_decision, turn_result, winner,
          violation, personas, iteration, twin_state, next_state, available_actions,
          pc>>

\* what a single call or the turn-after-turn game leaves alone
sim_vars == <<personas, iteration, twin_state, next_state, available_actions>>

\* no second run
NoTwin == [absent |-> TRUE]

\* no state returned
NoState == [absent |-> TRUE]

\* the tool was called by neither player
NotShown == <<None, None>>

\* every decision of at most MaxCards cards
Decision == {MakeDecision(a, None) : a \in ActionSeqs}

\* the decisions played in the multi-turn specification: empty, advance and
\* strike, hold and strike behind a guard, retreat, and a malformed one
\* (both movement cards)
DuelDecisions ==
    {MakeDecision(a, None) :
        a \in {<< >>, <<ADVANCE, ATTACK>>, <<ATTACK, DEFEND>>, <<RETREAT>>,
               <<ADVANCE, RETREAT>>}}

\* (strength, defense) of the challenger and of the defender: the dataclass
\* defaults, and two pairs in which the four values differ between the
\* players and between strength and defense
AttributePairs ==
    {<<DEFAULT_STRENGTH, DEFAULT_DEFENSE, DEFAULT_STRENGTH, DEFAULT_DEFENSE>>,
     <<DEFAULT_STRENGTH + 1, DEFAULT_DEFENSE - 1, DEFAULT_STRENGTH - 1, DEFAULT_DEFENSE + 1>>,
     <<DEFAULT_STRENGTH - 1, DEFAULT_DEFENSE + 1, DEFAULT_STRENGTH + 1, DEFAULT_DEFENSE - 1>>}

NoDecision == MakeDecision(<< >>, None)

\* no simulation is running: no personas were handed in
NoPersonas == << >>
NoResult == <<NoTurn, APART>>

(* ------------------- the game played turn after turn ------------------- *)

\* GameMasterAgent.initialize_game: the players, then the game state
Init ==
    /\ game_state = initialize_game_state(initialize_players.challenger,
                                          initialize_players.defender)
    /\ challenger_decision = NoDecision
    /\ defender_decision = NoDecision
    /\ turn_result = NoResult
    /\ winner = None
    /\ violation = FALSE
    /\ personas = NoPersonas
    /\ iteration = 0
    /\ twin_state = NoTwin
    /\ next_state = NoState
    /\ available_actions = NotShown
    /\ pc = "play"

\* one call of get_next_state on the current state; the state it returns
\* becomes the current state
NextState(cd, dd) ==
    /\ pc = "play"
    /\ game_state.turn_number < MaxTurns
    /\ game_state' = get_next_state(game_state, cd, dd)
    /\ challenger_decision' = cd
    /\ defender_decision' = dd
    /\ UNCHANGED <<turn_result, winner, violation, pc>>
    /\ UNCHANGED sim_vars

Next == \E cd \in DuelDecisions, dd \in DuelDecisions : NextState(cd, dd)

Spec == Init /\ [][Next]_vars

(* ------------- successive turns from players built by a caller ---------- *)

\* the decisions of a player who waits, guards or closes in
StartDecisions == {MakeDecision(a, None) : a \in {<< >>, <<DEFEND>>, <<ADVANCE>>}}

\* a game state at Apart before the first turn whose players were built with
\* any momentum and balance (the dataclass defaults are 0 and 0)
InitStart ==
    \E cm \in 0..1, cb \in 0..MAX_BALANCE, dm \in 0..1, db \in 0..MAX_BALANCE :
        /\ game_state = initialize_game_state(PlayerState(CHALLENGER, cm, cb),
                                              PlayerState(DEFENDER, dm, db))
        /\ challenger_decision = NoDecision
        /\ defender_decision = NoDecision
        /\ turn_result = NoResult
        /\ winner = None
        /\ violation = FALSE
        /\ personas = NoPersonas
        /\ iteration = 0
        /\ twin_state = NoTwin
        /\ next_state = NoState
        /\ available_actions = NotShown
        /\ pc = "play"

NextStart == \E cd \in StartDecisions, dd \in StartDecisions : NextState(cd, dd)

SpecStart == InitStart /\ [][NextStart]_vars

(* ---------------- technique assignment, then successive turns ----------- *)

\* the decisions played after the assignment
DraftDecisions ==
    {<<MakeDecision(a, None), MakeDecision(<<DEFEND>>, None)>> :
        a \in {<< >>, <<ADVANCE, ATTACK>>}}

\* initialize_players has built the two players and is about to assign the
\* technique cards
InitDraft ==
    /\ game_state = initialize_game_state(initialize_players.challenger,
                                          initialize_players.defender)
    /\ challenger_decision = NoDecision
    /\ defender_decision = NoDecision
    /\ turn_result = NoResult
    /\ winner = None
    /\ violation = FALSE
    /\ personas = NoPersonas
    /\ iteration = 0
    /\ twin_state = NoTwin
    /\ next_state = NoState
    /\ available_actions = NotShown
    /\ pc = "init"

\* _assign_techniques, after which the game state is built from the players
AssignTechniques ==
    /\ pc = "init"
    /\ \E shuffled \in Shuffles :
          LET players == assign_techniques(initialize_players, shuffled)
          IN game_state' = initialize_game_state(players.challenger, players.defender)
    /\ pc' = "play"
    /\ UNCHANGED <<challenger_decision, defender_decision, turn_result, winner,
                   violation>>
    /\ UNCHANGED sim_vars

NextDraft ==
    \/ AssignTechniques
    \/ \E d \in DraftDecisions : NextState(d[1], d[2])

SpecDraft == InitDraft /\ [][NextDraft]_vars

(* ------------- two runs of one game under different techniques ---------- *)

\* the cards both runs are given
TwinActions == {<< >>, <<ADVANCE, ATTACK>>, <<RETREAT>>}

\* technique names declared in a turn: <<challenger's and defender's in the
\* first run, challenger's and defender's in the second>>; two names of
\* known cards, one name that is no card, and no technique
TechniqueChoices ==
    {<<"Kuzushi", None, "Hiten Mitsurugi", "Ma-ai">>,
     <<None, "Hiten Mitsurugi", "Kuzushi", None>>,
     <<"Hiten Mitsurugi", "Kuzushi", None, "Hiten Mitsurugi">>}

\* both runs start from the same initialized game
InitTwin ==
    /\ LET players == assign_techniques(initialize_players, TECHNIQUE_CARDS)
       IN /\ game_state = initialize_game_state(players.challenger, players.defender)
          /\ twin_state = initialize_game_state(players.challenger, players.defender)
    /\ challenger_decision = NoDecision
    /\ defender_decision = NoDecision
    /\ turn_result = NoResult
    /\ winner = None
    /\ violation = FALSE
    /\ personas = NoPersonas
    /\ iteration = 0
    /\ next_state = NoState
    /\ available_actions = NotShown
    /\ pc = "play"

\* one turn of an undecided game, played on both runs with the same cards;
\* one turn more than MaxTurns is played so that the turn after the honor
\* restriction turn is reached
PlayBoth(challenger_actions, defender_actions, techniques) ==
    /\ pc = "play"
    /\ game_state.turn_number < MaxTurns + 1
    /\ game_check_victory(game_state) = None
    /\ challenger_decision' = MakeDecision(challenger_actions, techniques[1])
    /\ defender_decision' = MakeDecision(defender_actions, techniques[2])
    /\ game_state' = get_next_state(game_state, challenger_decision', defender_decision')
    /\ twin_state' = get_next_state(twin_state,
                                    MakeDecision(challenger_actions, techniques[3]),
                                    MakeDecision(defender_actions, techniques[4]))
    /\ UNCHANGED <<turn_result, winner, violation, personas, iteration, next_state,
                   available_actions, pc>>

NextTwin ==
    \E challenger_actions \in TwinActions, defender_actions \in TwinActions,
       techniques \in TechniqueChoices :
        PlayBoth(challenger_actions, defender_actions, techniques)

SpecTwin == InitTwin /\ [][NextTwin]_vars

(* ---------------- get_next_state, the original kept in hand ------------- *)

\* the decisions handed to get_next_state
LookaheadDecisions == {MakeDecision(a, None) : a \in TwinActions}

InitLookahead ==
    /\ LET players == assign_techniques(initialize_players, TECHNIQUE_CARDS)
       IN game_state = initialize_game_state(players.challenger, players.defender)
    /\ challenger_decision = NoDecision
    /\ defender_decision = NoDecision
    /\ turn_result = NoResult
    /\ winner = None
    /\ violation = FALSE
    /\ personas = NoPersonas
    /\ iteration = 0
    /\ twin_state = NoTwin
    /\ next_state = NoState
    /\ available_actions = NotShown
    /\ pc = "play"

\* faulty variant: the copy is shallow, so the players and the history list
\* of the original are the ones the call updates
GetNextState_shallow_copy(cd, dd) ==
    /\ pc = "play"
    /\ game_state.turn_number < MaxTurns
    /\ next_state' = get_next_state(game_state, cd, dd)
    /\ game_state' = [game_state EXCEPT !.challenger = next_state'.challenger,
                                        !.defender = next_state'.defender,
                                        !.turn_history = next_state'.turn_history]
    /\ challenger_decision' = cd
    /\ defender_decision' = dd
    /\ pc' = "returned"
    /\ UNCHANGED <<turn_result, winner, violation, personas, iteration, twin_state,
                   available_actions>>

\* the call works on a deep copy: the state handed in stays as it is and the
\* updated copy is returned
GetNextState(cd, dd) ==
    /\ pc = "play"
    /\ game_state.turn_number < MaxTurns
    /\ next_state' = get_next_state(game_state, cd, dd)
    /\ challenger_decision' = cd
    /\ defender_decision' = dd
    /\ pc' = "returned"
    /\ UNCHANGED <<game_state, turn_result, winner, violation, personas, iteration,
                   twin_state, available_actions>>

\* the caller goes on from the state returned
AdoptNextState ==
    /\ pc = "returned"
    /\ game_state' = next_state
    /\ pc' = "play"
    /\ UNCHANGED <<challenger_decision, defender_decision, turn_result, winner,
                   violation, personas, iteration, twin_state, next_state,
                   available_actions>>

NextLookahead ==
    \/ \E cd \in LookaheadDecisions, dd \in LookaheadDecisions : GetNextState(cd, dd)
    \/ AdoptNextState

SpecLookahead == InitLookahead /\ [][NextLookahead]_vars

(* ---------------------- resolve_turn, a single call -------------------- *)

\* the arguments of one call: any position, any two decisions, the players
\* as initialized with one of the attribute pairs, first turn
InitTurn ==
    \E pos \in Position, attrs \in AttributePairs, cd \in Decision, dd \in Decision :
        /\ game_state =
              [initialize_game_state(
                  [initialize_players.challenger EXCEPT !.strength = attrs[1],
                                                        !.defense = attrs[2]],
                  [initialize_players.defender EXCEPT !.strength = attrs[3],
                                                      !.defense = attrs[4]])
               EXCEPT !.position = pos, !.turn_number = 1]
        /\ challenger_decision = cd
        /\ defender_decision = dd
        /\ turn_result = NoResult
        /\ winner = None
        /\ violation = FALSE
        /\ personas = NoPersonas
        /\ iteration = 0
        /\ twin_state = NoTwin
        /\ next_state = NoState
        /\ available_actions = NotShown
        /\ pc = "call"

ResolveTurn ==
    /\ pc = "call"
    /\ turn_result' = resolve_turn(game_state.turn_number,
                                   game_state.position,
                                   game_state.challenger,
                                   game_state.defender,
                                   challenger_decision,
                                   defender_decision)
    /\ pc' = "returned"
    /\ UNCHANGED <<game_state, challenger_decision, defender_decision, winner, violation>>
    /\ UNCHANGED sim_vars

\* the caller hands the result to update_both_players, which mutates the
\* two players of the game state
UpdateBothPlayers ==
    /\ pc = "returned"
    /\ LET players == update_both_players(game_state.challenger,
                                          game_state.defender,
                                          turn_result[1].challenger_actions,
                                          turn_result[1].defender_actions,
                                          turn_result[1].damage_dealt)
       IN game_state' = [game_state EXCEPT !.challenger = players.challenger,
                                           !.defender = players.defender]
    /\ pc' = "updated"
    /\ UNCHANGED <<challenger_decision, defender_decision, turn_result, winner, violation>>
    /\ UNCHANGED sim_vars

NextTurn == ResolveTurn \/ UpdateBothPlayers

SpecTurn == InitTurn /\ [][NextTurn]_vars

(* --------------------- check_victory, a single call -------------------- *)

\* turn results a game can end on: turns at and after the honor threshold
LastTurns ==
    {resolve_turn(tn, pos, initialize_players.challenger, initialize_players.defender,
                  cd, dd)[1] :
        tn \in {HONOR_RESTRICTION_TURN, HONOR_RESTRICTION_TURN + 1},
        pos \in Position, cd \in DuelDecisions, dd \in DuelDecisions}

\* the arguments of one call: any two healths, and a history that is empty
\* or ends with one of LastTurns (check_victory reads its last entry only)
InitVictory ==
    \E hc \in 0..DEFAULT_HEALTH, hd \in 0..DEFAULT_HEALTH,
       history \in {<< >>} \cup {<<t>> : t \in LastTurns} :
        /\ game_state =
              [turn_number |-> IF history = << >> THEN 0 ELSE history[1].turn,
               position |-> IF history = << >> THEN APART ELSE history[1].position_after,
               challenger |-> [initialize_players.challenger EXCEPT !.health = hc],
               defender |-> [initialize_players.defender EXCEPT !.health = hd],
               turn_history |-> history,
               tension_levels |-> << >>,
               choice_difficulty |-> << >>,
               enjoyment_scores |-> << >>]
        /\ challenger_decision = NoDecision
        /\ defender_decision = NoDecision
        /\ turn_result = NoResult
        /\ winner = None
        /\ violation = FALSE
        /\ personas = NoPersonas
        /\ iteration = 0
        /\ twin_state = NoTwin
        /\ next_state = NoState
        /\ available_actions = NotShown
        /\ pc = "call"

\* faulty variant: the last turn is taken off the history when it is read
CheckVictory_pops_last_turn ==
    /\ pc \in {"call", "returned", "again"}
    /\ winner' = game_check_victory(game_state)
    /\ game_state' = [game_state EXCEPT !.turn_history =
                          IF @ = << >> THEN @ ELSE SubSeq(@, 1, Len(@) - 1)]
    /\ pc' = IF pc = "call" THEN "returned" ELSE "again"
    /\ UNCHANGED <<challenger_decision, defender_decision, turn_result, violation>>
    /\ UNCHANGED sim_vars

\* the caller may call again on the state it has not changed
CheckVictory ==
    /\ pc \in {"call", "returned", "again"}
    /\ winner' = game_check_victory(game_state)
    /\ pc' = IF pc = "call" THEN "returned" ELSE "again"
    /\ UNCHANGED <<game_state, challenger_decision, defender_decision, turn_result,
                   violation>>
    /\ UNCHANGED sim_vars

NextVictory == CheckVictory

SpecVictory == InitVictory /\ [][NextVictory]_vars

(* ------------------- check_honor_violation, a single call ---------------- *)

\* turn numbers on both sides of the restriction turn
HonorTurns == 0..(HONOR_RESTRICTION_TURN + MaxTurns)

InitHonor ==
    \E tn \in HonorTurns, cd \in Decision :
        /\ game_state = [initialize_game_state(initialize_players.challenger,
                                               initialize_players.defender)
                         EXCEPT !.turn_number = tn]
        /\ challenger_decision = cd
        /\ defender_decision = NoDecision
        /\ turn_result = NoResult
        /\ winner = None
        /\ violation = FALSE
        /\ personas = NoPersonas
        /\ iteration = 0
        /\ twin_state = NoTwin
        /\ next_state = NoState
        /\ available_actions = NotShown
        /\ pc = "call"

CheckHonorViolation ==
    /\ pc = "call"
    /\ violation' = check_honor_violation(game_state.turn_number,
                                          challenger_decision.actions)
    /\ pc' = "returned"
    /\ UNCHANGED <<game_state, challenger_decision, defender_decision, turn_result,
                   winner>>
    /\ UNCHANGED sim_vars

NextHonor == CheckHonorViolation

SpecHonor == InitHonor /\ [][NextHonor]_vars

(* -------------------- apply_action_effects, a single call ---------------- *)

InitEffects ==
    \E health \in 0..DEFAULT_HEALTH, momentum \in 0..MAX_MOMENTUM,
       balance \in 0..MAX_BALANCE, cd \in Decision :
        /\ game_state =
              initialize_game_state(
                  [initialize_players.challenger EXCEPT !.health = health,
                                                        !.momentum = momentum,
                                                        !.balance = balance],
                  initialize_players.defender)
        /\ challenger_decision = cd
        /\ defender_decision = NoDecision
        /\ turn_result = NoResult
        /\ winner = None
        /\ violation = FALSE
        /\ personas = NoPersonas
        /\ iteration = 0
        /\ twin_state = NoTwin
        /\ next_state = NoState
        /\ available_actions = NotShown
        /\ pc = "call"

\* the call mutates the player it is given
ApplyActionEffects ==
    /\ pc = "call"
    /\ game_state' = [game_state EXCEPT !.challenger =
                          apply_action_effects(@, challenger_decision.actions)]
    /\ pc' = "returned"
    /\ UNCHANGED <<challenger_decision, defender_decision, turn_result, winner,
                   violation>>
    /\ UNCHANGED sim_vars

NextEffects == ApplyActionEffects

SpecEffects == InitEffects /\ [][NextEffects]_vars

(* --------------------------- an orchestrated game ------------------------ *)

\* the two personas of a simulation
PersonaPairs ==
    {<<PlayerPersona(AGGRESSIVE), PlayerPersona(DEFENSIVE)>>,
     <<PlayerPersona(CALCULATED), PlayerPersona(AGGRESSIVE)>>}

\* the card tuples an agent's response is parsed into
SimActions == {<< >>, <<ADVANCE, ATTACK>>, <<RETREAT>>}

\* two of the orders the shuffle of the technique cards can leave: the
\* listed order and its reverse
SimShuffles ==
    {TECHNIQUE_CARDS,
     [i \in 1..Len(TECHNIQUE_CARDS) |-> TECHNIQUE_CARDS[Len(TECHNIQUE_CARDS) + 1 - i]]}

\* initialize_game, then the loop of _run_single_simulation is entered
InitSim ==
    \E p \in PersonaPairs, shuffled \in SimShuffles :
        /\ personas = p
        /\ LET players == assign_techniques(initialize_players, shuffled)
           IN game_state = initialize_game_state(players.challenger, players.defender)
        /\ challenger_decision = NoDecision
        /\ defender_decision = NoDecision
        /\ turn_result = NoResult
        /\ winner = None
        /\ violation = FALSE
        /\ iteration = 0
        /\ twin_state = NoTwin
        /\ next_state = NoState
        /\ available_actions = NotShown
        /\ pc = "loop"

\* faulty variant: the turn is begun without counting it
RunTurn_without_increment ==
    /\ pc = "loop"
    /\ iteration < get_max_turns
    /\ iteration' = iteration + 1
    /\ challenger_decision' = NoDecision
    /\ defender_decision' = NoDecision
    /\ pc' = "decide"
    /\ UNCHANGED <<game_state, turn_result, winner, violation, personas, twin_state,
                   next_state, available_actions>>

\* the next iteration of the loop calls run_turn, which counts the turn and
\* starts the two decision tasks
RunTurn ==
    /\ pc = "loop"
    /\ iteration < get_max_turns
    /\ iteration' = iteration + 1
    /\ game_state' = [game_state EXCEPT !.turn_number = @ + 1]
    /\ challenger_decision' = NoDecision
    /\ defender_decision' = NoDecision
    /\ available_actions' = NotShown
    /\ pc' = "decide"
    /\ UNCHANGED <<turn_result, winner, violation, personas, twin_state, next_state>>

\* faulty variant: the task applies the effects of the cards to its player as
\* soon as the decision is parsed
GetPlayerDecision_applies_effects(player_index) ==
    /\ pc = "decide"
    /\ \E actions \in SimActions :
          IF player_index = 0
            THEN /\ challenger_decision = NoDecision
                 /\ challenger_decision' =
                        parse_response(actions, None, game_state.challenger,
                                       personas[1].personality, game_state)
                 /\ personas' = [personas EXCEPT ![1] =
                        game_update_emotional_state(@, game_state.challenger,
                                                    challenger_decision',
                                                    game_state.defender)]
                 /\ game_state' = [game_state EXCEPT !.challenger =
                        apply_action_effects(@, actions)]
                 /\ UNCHANGED defender_decision
            ELSE /\ defender_decision = NoDecision
                 /\ defender_decision' =
                        parse_response(actions, None, game_state.defender,
                                       personas[2].personality, game_state)
                 /\ personas' = [personas EXCEPT ![2] =
                        game_update_emotional_state(@, game_state.defender,
                                                    defender_decision',
                                                    game_state.challenger)]
                 /\ game_state' = [game_state EXCEPT !.defender =
                        apply_action_effects(@, actions)]
                 /\ UNCHANGED challenger_decision
    /\ UNCHANGED <<turn_result, winner, violation, pc, iteration,
                   twin_state, next_state, available_actions>>

\* a decision task completes: the agent's response is parsed into a decision
\* and the player's persona takes the emotional state the decision brings
GetPlayerDecision(player_index) ==
    /\ pc = "decide"
    /\ \E actions \in SimActions :
          IF player_index = 0
            THEN /\ challenger_decision = NoDecision
                 /\ challenger_decision' =
                        parse_response(actions, None, game_state.challenger,
                                       personas[1].personality, game_state)
                 /\ personas' = [personas EXCEPT ![1] =
                        game_update_emotional_state(@, game_state.challenger,
                                                    challenger_decision',
                                                    game_state.defender)]
                 /\ UNCHANGED defender_decision
            ELSE /\ defender_decision = NoDecision
                 /\ defender_decision' =
                        parse_response(actions, None, game_state.defender,
                                       personas[2].personality, game_state)
                 /\ personas' = [personas EXCEPT ![2] =
                        game_update_emotional_state(@, game_state.defender,
                                                    defender_decision',
                                                    game_state.challenger)]
                 /\ UNCHANGED challenger_decision
    /\ UNCHANGED <<game_state, turn_result, winner, violation, pc, iteration,
                   twin_state, next_state, available_actions>>

\* a decision task raises (the runner fails or the response is empty): the
\* exception leaves run_turn and the simulation
AgentError ==
    /\ pc = "decide"
    /\ challenger_decision = NoDecision \/ defender_decision = NoDecision
    /\ pc' = "failed"
    /\ UNCHANGED <<game_state, challenger_decision, defender_decision, turn_result,
                   winner, violation>>
    /\ UNCHANGED sim_vars

\* faulty variant: the turn is resolved as soon as the challenger's decision
\* is in, with whatever the defender's decision is by then
GameResolveTurn_without_waiting ==
    /\ pc = "decide"
    /\ challenger_decision # NoDecision
    /\ turn_result' = game_resolve_turn(game_state, challenger_decision, defender_decision)
    /\ pc' = "update"
    /\ UNCHANGED <<game_state, challenger_decision, defender_decision, winner,
                   violation>>
    /\ UNCHANGED sim_vars

\* faulty variant: resolving the turn also applies it to the game state
GameResolveTurn_applies_update ==
    /\ pc = "decide"
    /\ challenger_decision # NoDecision
    /\ defender_decision # NoDecision
    /\ turn_result' = game_resolve_turn(game_state, challenger_decision, defender_decision)
    /\ game_state' = update_game_state(game_state, turn_result')
    /\ pc' = "update"
    /\ UNCHANGED <<challenger_decision, defender_decision, winner, violation>>
    /\ UNCHANGED sim_vars

\* both decisions are in: self.game.resolve_turn
GameResolveTurn ==
    /\ pc = "decide"
    /\ challenger_decision # NoDecision
    /\ defender_decision # NoDecision
    /\ turn_result' = game_resolve_turn(game_state, challenger_decision, defender_decision)
    /\ pc' = "update"
    /\ UNCHANGED <<game_state, challenger_decision, defender_decision, winner,
                   violation>>
    /\ UNCHANGED sim_vars

\* self.game.update_game_state
UpdateGameState ==
    /\ pc = "update"
    /\ game_state' = update_game_state(game_state, turn_result)
    /\ pc' = "record"
    /\ UNCHANGED <<challenger_decision, defender_decision, turn_result, winner,
                   violation>>
    /\ UNCHANGED sim_vars

\* self.game.record_turn_metrics; run_turn returns
RecordTurnMetrics ==
    /\ pc = "record"
    /\ game_state' = record_turn_metrics(game_state, challenger_decision,
                                         defender_decision)
    /\ pc' = "check"
    /\ UNCHANGED <<challenger_decision, defender_decision, turn_result, winner,
                   violation>>
    /\ UNCHANGED sim_vars

\* faulty variant: the loop goes on whatever the verdict
SimCheckVictory_without_break ==
    /\ pc = "check"
    /\ winner' = game_check_victory(game_state)
    /\ pc' = "loop"
    /\ UNCHANGED <<game_state, challenger_decision, defender_decision, turn_result,
                   violation>>
    /\ UNCHANGED sim_vars

\* winner = gm.check_victory(); a winner breaks the loop
SimCheckVictory ==
    /\ pc = "check"
    /\ winner' = game_check_victory(game_state)
    /\ pc' = IF winner' # None THEN "complete" ELSE "loop"
    /\ UNCHANGED <<game_state, challenger_decision, defender_decision, turn_result,
                   violation>>
    /\ UNCHANGED sim_vars

\* faulty variant: the loop is left one iteration too late
LoopExhausted_one_late ==
    /\ pc = "loop"
    /\ iteration > get_max_turns
    /\ pc' = "complete"
    /\ UNCHANGED <<game_state, challenger_decision, defender_decision, turn_result,
                   winner, violation>>
    /\ UNCHANGED sim_vars

\* range(max_turns) is exhausted
LoopExhausted ==
    /\ pc = "loop"
    /\ iteration >= get_max_turns
    /\ pc' = "complete"
    /\ UNCHANGED <<game_state, challenger_decision, defender_decision, turn_result,
                   winner, violation>>
    /\ UNCHANGED sim_vars

\* complete_game checks victory once more for the summary
CompleteGame ==
    /\ pc = "complete"
    /\ winner' = game_check_victory(game_state)
    /\ pc' = "done"
    /\ UNCHANGED <<game_state, challenger_decision, defender_decision, turn_result,
                   violation>>
    /\ UNCHANGED sim_vars

NextSim ==
    \/ RunTurn
    \/ GetPlayerDecision(0)
    \/ GetPlayerDecision(1)
    \/ AgentError
    \/ GameResolveTurn
    \/ UpdateGameState
    \/ RecordTurnMetrics
    \/ SimCheckVictory
    \/ LoopExhausted
    \/ CompleteGame

SpecSim == InitSim /\ [][NextSim]_vars

(* ------------------ update_emotional_state, a single call --------------- *)

\* tension levels around the thresholds: 0, 0.4, just above 0.4, 0.7, just
\* above 0.7, 1
TensionLevels ==
    {0, (4 * Scale) \div 10, (4 * Scale) \div 10 + 1, (7 * Scale) \div 10,
     (7 * Scale) \div 10 + 1, Scale}

\* the default threshold 0.7 and a lower one, 0.4
TensionThresholds == {(7 * Scale) \div 10, (4 * Scale) \div 10}

\* confidence levels 0.125, 0.5 and 1.0
ConfidenceLevels == {Scale \div 8, Scale \div 2, Scale}

\* the challenger's persona, the challenger, its decision and the opponent
\* as the call finds them
InitEmotion ==
    \E health \in 0..DEFAULT_HEALTH, opponent_health \in 0..DEFAULT_HEALTH,
       tension \in TensionLevels, threshold \in TensionThresholds,
       confidence \in ConfidenceLevels :
        /\ game_state =
              initialize_game_state(
                  [initialize_players.challenger EXCEPT !.health = health],
                  [initialize_players.defender EXCEPT !.health = opponent_health])
        /\ personas = <<[PlayerPersona(CALCULATED) EXCEPT
                            !.tension_threshold = threshold,
                            !.confidence_level = confidence],
                        PlayerPersona(CALCULATED)>>
        /\ challenger_decision =
              [parse_response(<< >>, None, initialize_players.challenger,
                              CALCULATED, game_state)
               EXCEPT !.tension = tension]
        /\ defender_decision = NoDecision
        /\ turn_result = NoResult
        /\ winner = None
        /\ violation = FALSE
        /\ iteration = 0
        /\ twin_state = NoTwin
        /\ next_state = NoState
        /\ available_actions = NotShown
        /\ pc = "call"

\* the call mutates the persona of the player it is given
UpdateEmotionalState ==
    /\ pc = "call"
    /\ personas' = [personas EXCEPT ![1] =
           game_update_emotional_state(@, game_state.challenger,
                                       challenger_decision, game_state.defender)]
    /\ pc' = "returned"
    /\ UNCHANGED <<game_state, challenger_decision, defender_decision, turn_result,
                   winner, violation, iteration, twin_state, next_state,
                   available_actions>>

NextEmotion == UpdateEmotionalState

SpecEmotion == InitEmotion /\ [][NextEmotion]_vars

\* the simulation when every decision task returns a decision: the event
\* loop runs each step of the simulation that is ready to run
NextSimReturning ==
    \/ RunTurn
    \/ GetPlayerDecision(0)
    \/ GetPlayerDecision(1)
    \/ GameResolveTurn
    \/ UpdateGameState
    \/ RecordTurnMetrics
    \/ SimCheckVictory
    \/ LoopExhausted
    \/ CompleteGame

SpecSimReturning ==
    InitSim /\ [][NextSimReturning]_vars /\ WF_vars(NextSimReturning)

(* ------------ a turn looked ahead, then run by the game master ---------- *)

\* GameMasterAgent.run_turn on the game state, given the decisions its two
\* tasks returned: the turn is counted, resolved, applied and its metrics
\* recorded
run_turn(gs, player1_decision, player2_decision) ==
    LET counted == [gs EXCEPT !.turn_number = @ + 1]
        result == game_resolve_turn(counted, player1_decision, player2_decision)
    IN record_turn_metrics(update_game_state(counted, result),
                           player1_decision, player2_decision)

\* the cards of a player who waits, closes in, strikes behind a guard or
\* retreats
PathActions == {<< >>, <<ADVANCE>>, <<ATTACK, DEFEND>>, <<RETREAT>>}

\* a game as initialize_game leaves it
InitPath ==
    /\ personas = <<PlayerPersona(AGGRESSIVE), PlayerPersona(DEFENSIVE)>>
    /\ LET players == assign_techniques(initialize_players, TECHNIQUE_CARDS)
       IN game_state = initialize_game_state(players.challenger, players.defender)
    /\ challenger_decision = NoDecision
    /\ defender_decision = NoDecision
    /\ turn_result = NoResult
    /\ winner = None
    /\ violation = FALSE
    /\ iteration = 0
    /\ twin_state = NoTwin
    /\ next_state = NoState
    /\ available_actions = NotShown
    /\ pc = "play"

\* a caller asks get_next_state what the turn of an undecided game would
\* give for the decisions the players are about to return (the decision
\* dicts parse_response builds in the turn, once it is counted); one turn
\* more than MaxTurns is played so that the turn after the honor restriction
\* turn is reached
PathGetNextState(challenger_actions, defender_actions) ==
    /\ pc = "play"
    /\ game_state.turn_number < MaxTurns + 1
    /\ game_check_victory(game_state) = None
    /\ LET counted == [game_state EXCEPT !.turn_number = @ + 1]
       IN /\ challenger_decision' =
                 parse_response(challenger_actions, None, counted.challenger,
                                personas[1].personality, counted)
          /\ defender_decision' =
                 parse_response(defender_actions, None, counted.defender,
                                personas[2].personality, counted)
    /\ next_state' = get_next_state(game_state, challenger_decision', defender_decision')
    /\ pc' = "returned"
    /\ UNCHANGED <<game_state, turn_result, winner, violation, personas, iteration,
                   twin_state, available_actions>>

\* the game master runs the turn and the two tasks return those decisions,
\* each task leaving its player's persona in the emotional state the decision
\* brings
PathRunTurn ==
    /\ pc = "returned"
    /\ game_state' = run_turn(game_state, challenger_decision, defender_decision)
    /\ personas' =
          <<game_update_emotional_state(personas[1], game_state.challenger,
                                        challenger_decision, game_state.defender),
            game_update_emotional_state(personas[2], game_state.defender,
                                        defender_decision, game_state.challenger)>>
    /\ iteration' = iteration + 1
    /\ pc' = "play"
    /\ UNCHANGED <<challenger_decision, defender_decision, turn_result, winner,
                   violation, twin_state, next_state, available_actions>>

NextPath ==
    \/ \E challenger_actions \in PathActions, defender_actions \in PathActions :
          PathGetNextState(challenger_actions, defender_actions)
    \/ PathRunTurn

SpecPath == InitPath /\ [][NextPath]_vars

(* --------- an orchestrated game whose players consult their tools ------- *)

\* initialize_game with one pair of personas, then the loop of
\* _run_single_simulation is entered
InitTools ==
    /\ personas = <<PlayerPersona(AGGRESSIVE), PlayerPersona(DEFENSIVE)>>
    /\ LET players == assign_techniques(initialize_players, TECHNIQUE_CARDS)
       IN game_state = initialize_game_state(players.challenger, players.defender)
    /\ challenger_decision = NoDecision
    /\ defender_decision = NoDecision
    /\ turn_result = NoResult
    /\ winner = None
    /\ violation = FALSE
    /\ iteration = 0
    /\ twin_state = NoTwin
    /\ next_state = NoState
    /\ available_actions = NotShown
    /\ pc = "loop"

\* while its decision task runs, a player's agent calls the tool
\* get_available_actions, which reads the game state the tool was bound to
GetAvailableActions(player_index) ==
    /\ pc = "decide"
    /\ IF player_index = 0
         THEN /\ challenger_decision = NoDecision
              /\ available_actions' = [available_actions EXCEPT ![1] =
                     get_available_actions(game_state.challenger, game_state)]
         ELSE /\ defender_decision = NoDecision
              /\ available_actions' = [available_actions EXCEPT ![2] =
                     get_available_actions(game_state.defender, game_state)]
    /\ UNCHANGED <<game_state, challenger_decision, defender_decision, turn_result,
                   winner, violation, personas, iteration, twin_state, next_state, pc>>

NextTools ==
    \/ RunTurn
    \/ GetAvailableActions(0)
    \/ GetAvailableActions(1)
    \/ GetPlayerDecision(0)
    \/ GetPlayerDecision(1)
    \/ AgentError
    \/ GameResolveTurn
    \/ UpdateGameState
    \/ RecordTurnMetrics
    \/ SimCheckVictory
    \/ LoopExhausted
    \/ CompleteGame

SpecTools == InitTools /\ [][NextTools]_vars

(* ------- one resolved turn applied by the update and by the original ---- *)

\* the arguments of one call of resolve_turn: any position, the players as
\* initialized but for the healths and the challenger's balance; the same
\* game state is held a second time for the original update logic
InitOriginal ==
    \E pos \in Position, hc \in 1..DEFAULT_HEALTH, hd \in 1..DEFAULT_HEALTH,
       balance \in 0..MAX_BALANCE, cd \in Decision, dd \in DuelDecisions :
        /\ game_state =
              [initialize_game_state(
                  [initialize_players.challenger EXCEPT !.health = hc,
                                                        !.balance = balance],
                  [initialize_players.defender EXCEPT !.health = hd])
               EXCEPT !.position = pos, !.turn_number = 1]
        /\ twin_state = game_state
        /\ challenger_decision = cd
        /\ defender_decision = dd
        /\ turn_result = NoResult
        /\ winner = None
        /\ violation = FALSE
        /\ personas = NoPersonas
        /\ iteration = 0
        /\ next_state = NoState
        /\ available_actions = NotShown
        /\ pc = "call"

\* the original applies the same turn result to its own game state
OriginalUpdateGameState ==
    /\ pc = "updated"
    /\ twin_state' = _update_game_state(twin_state, turn_result[1])
    /\ pc' = "compared"
    /\ UNCHANGED <<game_state, challenger_decision, defender_decision, turn_result,
                   winner, violation, personas, iteration, next_state,
                   available_actions>>

NextOriginal == ResolveTurn \/ UpdateBothPlayers \/ OriginalUpdateGameState

SpecOriginal == InitOriginal /\ [][NextOriginal]_vars

(* ------------- resolve_turn and the update on malformed decisions ------- *)

\* action sequences the rules of play do not allow: a card played twice,
\* both movement cards, or more than two cards (one card more than MaxCards
\* at most)
MalformedActions ==
    {a \in UNION {[1..n -> ActionCard] : n \in 2..(MaxCards + 1)} :
        \/ Len(a) > 2
        \/ \E i, j \in DOMAIN a : i # j /\ a[i] = a[j]
        \/ Contains(a, ADVANCE) /\ Contains(a, RETREAT)}

\* what the other side plays against a malformed decision
OpposingActions ==
    {d.actions : d \in DuelDecisions}
        \cup {<<RETREAT, ADVANCE, ATTACK>>, <<DEFEND, DEFEND>>}

\* the arguments of one call: any position, a malformed decision on one side,
\* the players as initialized, first turn
InitMalformed ==
    \E pos \in Position, a \in MalformedActions, b \in OpposingActions,
       malformed_side \in {CHALLENGER, DEFENDER} :
        /\ game_state =
              [initialize_game_state(initialize_players.challenger,
                                     initialize_players.defender)
               EXCEPT !.position = pos, !.turn_number = 1]
        /\ challenger_decision =
              MakeDecision(IF malformed_side = CHALLENGER THEN a ELSE b, None)
        /\ defender_decision =
              MakeDecision(IF malformed_side = CHALLENGER THEN b ELSE a, None)
        /\ turn_result = NoResult
        /\ winner = None
        /\ violation = FALSE
        /\ personas = NoPersonas
        /\ iteration = 0
        /\ twin_state = NoTwin
        /\ next_state = NoState
        /\ available_actions = NotShown
        /\ pc = "call"

NextMalformed == ResolveTurn \/ UpdateBothPlayers

SpecMalformed == InitMalformed /\ [][NextMalformed]_vars

(* =============================== claims ================================ *)

\* the last entry of the turn history (of a state that has one)
LastTurn(gs) == gs.turn_history[Len(gs.turn_history)]

\* the three resources of a player lie in 0..3
InRange(player) ==
    /\ 0 <= player.health /\ player.health <= 3
    /\ 0 <= player.momentum /\ player.momentum <= 3
    /\ 0 <= player.balance /\ player.balance <= 3

\* C1: in every state reached from game initialization by any sequence of
\* turns (resolve_turn followed by update_both_players), whatever the
\* decisions, both players have health, momentum and balance within 0..3.
C1_ResourcesClamped ==
    InRange(game_state.challenger) /\ InRange(game_state.defender)

\* C1 witness: after two turns the challenger's momentum sits at the cap, its
\* health at the floor after taking more damage than it had left, and the
\* defender's balance at the cap.
C1_Witness ==
    /\ game_state.turn_number = 2
    /\ game_state.challenger.momentum = 3
    /\ game_state.challenger.balance = 0
    /\ game_state.challenger.health = 0
    /\ LastTurn(game_state).damage_dealt.challenger = 3
    /\ game_state.turn_history[1].damage_dealt.challenger = 2
    /\ game_state.defender.balance = 3

\* the honor marker check_victory is given: None without a last turn
LastMarker(gs) ==
    IF gs.turn_history = << >> THEN None ELSE LastTurn(gs).honor_violation

\* C2: check_victory decides by fixed priority: both healths <= 0 is DRAW,
\* else challenger health <= 0 is DEFENDER, else defender health <= 0 is
\* CHALLENGER; only with both healths > 0 does the last turn's honor marker
\* decide (the other side wins); with no marker and both alive it is None.
C2_VictoryPriority ==
    pc = "returned" =>
        LET hc == game_state.challenger.health
            hd == game_state.defender.health
            marker == LastMarker(game_state)
        IN /\ (hc <= 0 /\ hd <= 0) => winner = "DRAW"
           /\ (hc <= 0 /\ hd > 0) => winner = "DEFENDER"
           /\ (hc > 0 /\ hd <= 0) => winner = "CHALLENGER"
           /\ (hc > 0 /\ hd > 0 /\ marker = CHALLENGER) => winner = "DEFENDER"
           /\ (hc > 0 /\ hd > 0 /\ marker = DEFENDER) => winner = "CHALLENGER"
           /\ (hc > 0 /\ hd > 0 /\ marker = None) => winner = None

\* C2 witness: the defender is at 0 on the very turn the challenger violated
\* the honor rule, and the verdict is the health-based one.
C2_Witness ==
    /\ pc = "returned"
    /\ game_state.challenger.health > 0
    /\ game_state.defender.health = 0
    /\ LastMarker(game_state) = CHALLENGER
    /\ winner = "CHALLENGER"

\* the movement of each side in the call at hand, and what the call returned
ChallengerMove == first_move(challenger_decision.actions)
DefenderMove == first_move(defender_decision.actions)
NewPosition == turn_result[2]
DamageDealt == turn_result[1].damage_dealt

\* C3: at Apart the new position is SwordRange exactly when at least one
\* side's movement is Advance and neither side's movement is Retreat, and it
\* is Apart in every other case.
C3_ApartTable ==
    (pc = "returned" /\ game_state.position = APART) =>
        IF /\ (ChallengerMove = ADVANCE \/ DefenderMove = ADVANCE)
           /\ ChallengerMove # RETREAT
           /\ DefenderMove # RETREAT
          THEN NewPosition = SWORD
          ELSE NewPosition = APART

\* C3 witness: at Apart one side advances, the other retreats, and the
\* position stays Apart.
C3_Witness ==
    /\ pc = "returned"
    /\ game_state.position = APART
    /\ ChallengerMove = ADVANCE
    /\ DefenderMove = RETREAT
    /\ NewPosition = APART

\* C4: at SwordRange the new position is Close exactly when at least one
\* side advances and neither side retreats.
C4_SwordToClose ==
    (pc = "returned" /\ game_state.position = SWORD) =>
        (NewPosition = CLOSE <=>
            /\ (ChallengerMove = ADVANCE \/ DefenderMove = ADVANCE)
            /\ ChallengerMove # RETREAT
            /\ DefenderMove # RETREAT)

\* C4 witness: at SwordRange only the defender advances, the challenger
\* makes no movement, and the position becomes Close.
C4_Witness ==
    /\ pc = "returned"
    /\ game_state.position = SWORD
    /\ ChallengerMove = None
    /\ DefenderMove = ADVANCE
    /\ NewPosition = CLOSE

\* C5: at SwordRange the new position is Apart only when both sides retreat
\* or exactly one side retreats while the other is not advancing; when one
\* side advances and the other retreats the position stays SwordRange.
C5_SwordRetreatUnopposed ==
    (pc = "returned" /\ game_state.position = SWORD) =>
        /\ NewPosition = APART =>
              \/ (ChallengerMove = RETREAT /\ DefenderMove = RETREAT)
              \/ (ChallengerMove = RETREAT /\ DefenderMove = None)
              \/ (DefenderMove = RETREAT /\ ChallengerMove = None)
        /\ ( \/ (ChallengerMove = ADVANCE /\ DefenderMove = RETREAT)
             \/ (ChallengerMove = RETREAT /\ DefenderMove = ADVANCE) )
              => NewPosition = SWORD

\* C6: at SwordRange with challenger [Advance] and defender [Retreat],
\* resolve_turn yields new position Apart and damage 0 to both sides.
C6_Scenario2 ==
    ( /\ pc = "returned"
      /\ game_state.position = SWORD
      /\ challenger_decision.actions = <<ADVANCE>>
      /\ defender_decision.actions = <<RETREAT>> )
        => /\ NewPosition = APART
           /\ turn_result[1].position_after = APART
           /\ DamageDealt = [challenger |-> 0, defender |-> 0]

\* C6 witness: the scenario's call has returned.
C6_Witness ==
    /\ pc = "returned"
    /\ game_state.position = SWORD
    /\ challenger_decision.actions = <<ADVANCE>>
    /\ defender_decision.actions = <<RETREAT>>
    /\ turn_result[1].position_before = SWORD
    /\ NewPosition = APART

\* C7: at Close the new position is Apart when both sides retreat,
\* SwordRange when exactly one side retreats and the other does not advance,
\* and Close otherwise (a retreat against an advance included).
C7_CloseTable ==
    (pc = "returned" /\ game_state.position = CLOSE) =>
        IF ChallengerMove = RETREAT /\ DefenderMove = RETREAT
          THEN NewPosition = APART
        ELSE IF \/ (ChallengerMove = RETREAT /\ DefenderMove = None)
                \/ (DefenderMove = RETREAT /\ ChallengerMove = None)
          THEN NewPosition = SWORD
        ELSE NewPosition = CLOSE

\* C7 witness: at Close the defender retreats against an advancing
\* challenger and the position stays Close.
C7_Witness ==
    /\ pc = "returned"
    /\ game_state.position = CLOSE
    /\ ChallengerMove = ADVANCE
    /\ DefenderMove = RETREAT
    /\ NewPosition = CLOSE

\* C8: resolve_position is symmetric in the two players: the position
\* returned for (a, b) is the one returned for (b, a).
C8_PositionSymmetric ==
    pc = "returned" =>
        NewPosition = resolve_position(game_state.position,
                                       defender_decision.actions,
                                       challenger_decision.actions)

\* C8 witness: the two sides move differently and the position changes.
C8_Witness ==
    /\ pc = "returned"
    /\ game_state.position = SWORD
    /\ ChallengerMove = None
    /\ DefenderMove = ADVANCE
    /\ challenger_decision.actions # defender_decision.actions
    /\ NewPosition # game_state.position

\* the damage the receiver takes from the opponent at the post-move position
\* pos: 0 without Attack, else max(0, A - D), A = strength + 1 for Advance
\* + 1 at Close, D = 0 without Defend, else defense + 1 for Retreat
ClaimedDamage(opponent, opponent_actions, receiver, receiver_actions, pos) ==
    LET A == opponent.strength
               + (IF Contains(opponent_actions, ADVANCE) THEN 1 ELSE 0)
               + (IF pos = CLOSE THEN 1 ELSE 0)
        D == IF ~Contains(receiver_actions, DEFEND) THEN 0
             ELSE receiver.defense + (IF Contains(receiver_actions, RETREAT) THEN 1 ELSE 0)
    IN IF ~Contains(opponent_actions, ATTACK) THEN 0
       ELSE IF A - D > 0 THEN A - D ELSE 0

\* C9: when the post-move position is not Apart, each side receives 0 if the
\* opponent has no Attack and max(0, A - D) otherwise, the Close bonus of A
\* being decided by the position after this turn's movement.
C9_DamageFormula ==
    (pc = "returned" /\ NewPosition # APART) =>
        /\ DamageDealt.defender =
              ClaimedDamage(game_state.challenger, challenger_decision.actions,
                            game_state.defender, defender_decision.actions,
                            NewPosition)
        /\ DamageDealt.challenger =
              ClaimedDamage(game_state.defender, defender_decision.actions,
                            game_state.challenger, challenger_decision.actions,
                            NewPosition)

\* C9 witness: the turn moves from SwordRange to Close and the challenger's
\* attack on a defending defender carries the Advance and the Close bonus.
C9_Witness ==
    /\ pc = "returned"
    /\ game_state.position = SWORD
    /\ NewPosition = CLOSE
    /\ Contains(challenger_decision.actions, ATTACK)
    /\ Contains(challenger_decision.actions, ADVANCE)
    /\ Contains(defender_decision.actions, DEFEND)
    /\ DamageDealt.defender > 0
    /\ DamageDealt.defender =
          game_state.challenger.strength + 2 - game_state.defender.defense

\* C10: combat is simultaneous: in every turn the damage to each side is the
\* claimed damage computed from the pre-turn players, whatever the other
\* side receives, and each health drops by it (floored at 0).
C10_Simultaneous ==
    [][ LET pre == game_state
            post == game_state'
            turn == LastTurn(post)
            to_defender ==
                IF turn.position_after = APART THEN 0
                ELSE ClaimedDamage(pre.challenger, turn.challenger_actions,
                                   pre.defender, turn.defender_actions,
                                   turn.position_after)
            to_challenger ==
                IF turn.position_after = APART THEN 0
                ELSE ClaimedDamage(pre.defender, turn.defender_actions,
                                   pre.challenger, turn.challenger_actions,
                                   turn.position_after)
        IN /\ turn.damage_dealt.defender = to_defender
           /\ turn.damage_dealt.challenger = to_challenger
           /\ post.defender.health = max(0, pre.defender.health - to_defender)
           /\ post.challenger.health = max(0, pre.challenger.health - to_challenger)
      ]_vars

\* C10 witness: in the first turn both players take lethal damage, both end
\* at health 0 and the verdict is DRAW.
C10_Witness ==
    /\ game_state.turn_number = 1
    /\ LastTurn(game_state).damage_dealt.challenger >= DEFAULT_HEALTH
    /\ LastTurn(game_state).damage_dealt.defender >= DEFAULT_HEALTH
    /\ game_state.challenger.health = 0
    /\ game_state.defender.health = 0
    /\ game_check_victory(game_state) = "DRAW"

\* C11: whenever resolve_position returns Apart the turn deals no damage,
\* even when decisions contain Attack, and the update that follows leaves
\* both healths as they were.
C11_NoDamageApart ==
    [][ (pc = "returned" /\ NewPosition = APART) =>
            /\ DamageDealt = [challenger |-> 0, defender |-> 0]
            /\ game_state'.challenger.health = game_state.challenger.health
            /\ game_state'.defender.health = game_state.defender.health
      ]_vars

\* C11 witness: both sides attack while retreating from SwordRange to Apart,
\* and after the update both are still at full health.
C11_Witness ==
    /\ pc = "updated"
    /\ game_state.position = SWORD
    /\ NewPosition = APART
    /\ Contains(challenger_decision.actions, ATTACK)
    /\ Contains(defender_decision.actions, ATTACK)
    /\ DamageDealt = [challenger |-> 0, defender |-> 0]
    /\ game_state.challenger.health = DEFAULT_HEALTH
    /\ game_state.defender.health = DEFAULT_HEALTH

\* C12: check_honor_violation(turnNumber, actions) is true exactly when
\* turnNumber > 3 and actions contains Retreat; a Retreat on turn 4 is a
\* violation and a Retreat on turn 3 is not.
C12_HonorViolation ==
    pc = "returned" =>
        LET actions == challenger_decision.actions
            retreats == \E i \in 1..Len(actions) : actions[i] = RETREAT
        IN /\ violation <=> (game_state.turn_number > 3 /\ retreats)
           /\ (game_state.turn_number = 4 /\ retreats) => violation
           /\ game_state.turn_number = 3 => ~violation

\* C12 witness: a decision with Retreat checked on turn 4 is a violation.
C12_Witness ==
    /\ pc = "returned"
    /\ game_state.turn_number = 4
    /\ challenger_decision.actions = <<RETREAT>>
    /\ violation

\* a decision with Retreat checked on turn 3 is not a violation
C12_WitnessTurn3 ==
    /\ pc = "returned"
    /\ game_state.turn_number = 3
    /\ challenger_decision.actions = <<RETREAT>>
    /\ ~violation

\* C13: when both sides retreat on a turn after turn 3 the turn result
\* carries the single marker Defender (the challenger's marker is
\* overwritten), so with both healths above 0 check_victory returns
\* CHALLENGER.
C13_BothRetreat ==
    (/\ pc = "returned"
     /\ game_state.turn_history # << >>
     /\ LastTurn(game_state).turn > 3
     /\ \E i \in 1..Len(LastTurn(game_state).challenger_actions) :
            LastTurn(game_state).challenger_actions[i] = RETREAT
     /\ \E i \in 1..Len(LastTurn(game_state).defender_actions) :
            LastTurn(game_state).defender_actions[i] = RETREAT)
    => /\ LastTurn(game_state).honor_violation = DEFENDER
       /\ (game_state.challenger.health > 0 /\ game_state.defender.health > 0)
              => winner = "CHALLENGER"

\* C13 witness: both retreated on turn 4, both are alive, the marker names
\* the defender and the challenger is declared winner.
C13_Witness ==
    /\ pc = "returned"
    /\ game_state.turn_history # << >>
    /\ LastTurn(game_state).turn = 4
    /\ LastTurn(game_state).challenger_actions = <<RETREAT>>
    /\ LastTurn(game_state).defender_actions = <<RETREAT>>
    /\ game_state.challenger.health > 0
    /\ game_state.defender.health > 0
    /\ LastTurn(game_state).honor_violation = DEFENDER
    /\ winner = "CHALLENGER"

\* C15: check_victory is idempotent and free of side effects: every call
\* leaves both players and the turn history as they were, and a call that
\* follows another on the unchanged state returns the same verdict.
C15_VictoryIdempotent ==
    [][ /\ game_state'.challenger = game_state.challenger
        /\ game_state'.defender = game_state.defender
        /\ game_state'.turn_history = game_state.turn_history
        /\ pc \in {"returned", "again"} => winner' = winner
      ]_vars

\* C15 witness: a repeated call on a state whose verdict comes from the last
\* turn's honor marker has returned that verdict again.
C15_Witness ==
    /\ pc = "again"
    /\ game_state.challenger.health > 0
    /\ game_state.defender.health > 0
    /\ LastMarker(game_state) = CHALLENGER
    /\ winner = "DEFENDER"

\* a decision without duplicate cards and with at most one movement card
WellFormed(actions) ==
    /\ \A i, j \in 1..Len(actions) : i # j => actions[i] # actions[j]
    /\ Cardinality({i \in 1..Len(actions) : actions[i] \in {ADVANCE, RETREAT}}) <= 1

UpdateStep(players, k) ==
    IF k = 1 THEN [players EXCEPT !.challenger =
                       take_damage(@, turn_result[1].damage_dealt.challenger)]
    ELSE IF k = 2 THEN [players EXCEPT !.defender =
                       take_damage(@, turn_result[1].damage_dealt.defender)]
    ELSE IF k = 3 THEN [players EXCEPT !.challenger =
                       apply_action_effects(@, turn_result[1].challenger_actions)]
    ELSE [players EXCEPT !.defender =
                       apply_action_effects(@, turn_result[1].defender_actions)]

\* the pair after the four mutations in the given order
UpdateInOrder(players, order) ==
    UpdateStep(UpdateStep(UpdateStep(UpdateStep(players, order[1]), order[2]),
                          order[3]), order[4])

\* challenger first, defender first, one player's full update before the
\* other's, both ways
UpdateOrders == {<<1, 2, 3, 4>>, <<2, 1, 4, 3>>, <<1, 3, 2, 4>>, <<2, 4, 1, 3>>}

\* C17: update_both_players is order-independent: damage and action effects
\* applied challenger-first or defender-first, or one player's full update
\* before the other's, give the pair of player states the call leaves; each
\* player's new state is determined by that player's old state, own actions
\* and own damage.
C17_OrderIndependent ==
    [][ pc = "returned" =>
            LET before == [challenger |-> game_state.challenger,
                           defender |-> game_state.defender]
                after == [challenger |-> game_state'.challenger,
                          defender |-> game_state'.defender]
            IN /\ \A order \in UpdateOrders : UpdateInOrder(before, order) = after
               /\ after.challenger =
                      apply_action_effects(
                          take_damage(before.challenger,
                                      turn_result[1].damage_dealt.challenger),
                          turn_result[1].challenger_actions)
               /\ after.defender =
                      apply_action_effects(
                          take_damage(before.defender,
                                      turn_result[1].damage_dealt.defender),
                          turn_result[1].defender_actions)
      ]_vars

\* C17 witness: both players were hit and played different cards, and each
\* has lost exactly the damage dealt to them.
C17_Witness ==
    /\ pc = "updated"
    /\ DamageDealt.challenger > 0
    /\ DamageDealt.defender > 0
    /\ DamageDealt.challenger # DamageDealt.defender
    /\ challenger_decision.actions # defender_decision.actions
    /\ game_state.challenger.health = DEFAULT_HEALTH - DamageDealt.challenger
    /\ game_state.defender.health = DEFAULT_HEALTH - DamageDealt.defender

\* the resources of both players
Resources(gs) ==
    <<gs.challenger.health, gs.challenger.momentum, gs.challenger.balance,
      gs.defender.health, gs.defender.momentum, gs.defender.balance>>

\* C14: resolve_turn is a pure function of its inputs: the step that calls it
\* leaves position, turn_number, turn_history and both players' health,
\* momentum and balance as they were; position, history and the players'
\* resources change only in the step in which the caller applies
\* update_game_state (and with it update_both_players), and the turn number
\* only where the caller counts the turn.
C14_ResolveTurnPure ==
    [][ /\ (pc = "decide" /\ pc' = "update") =>
              /\ game_state'.position = game_state.position
              /\ game_state'.turn_number = game_state.turn_number
              /\ game_state'.turn_history = game_state.turn_history
              /\ Resources(game_state') = Resources(game_state)
        /\ (\/ game_state'.position # game_state.position
            \/ game_state'.turn_history # game_state.turn_history
            \/ Resources(game_state') # Resources(game_state))
              => (pc = "update" /\ pc' = "record")
        /\ game_state'.turn_number # game_state.turn_number
              => (pc = "loop" /\ pc' = "decide")
      ]_vars

\* C14 witness: the turn has been resolved to SwordRange with 3 damage to the
\* defender while the game state still shows Apart, full health and an empty
\* history.
C14_Witness ==
    /\ pc = "update"
    /\ turn_result.new_position = SWORD
    /\ turn_result.damage_dealt.defender = 3
    /\ game_state.position = APART
    /\ game_state.defender.health = DEFAULT_HEALTH
    /\ game_state.turn_history = << >>
    /\ game_state.turn_number = 1

\* C18: after every completed turn of an orchestrated game the history and
\* the three metric series all have as many entries as turns were counted.
C18_SeriesLengths ==
    pc \in {"check", "loop", "complete", "done"} =>
        /\ Len(game_state.turn_history) = game_state.turn_number
        /\ Len(game_state.tension_levels) = game_state.turn_number
        /\ Len(game_state.choice_difficulty) = game_state.turn_number
        /\ Len(game_state.enjoyment_scores) = game_state.turn_number

\* C18 witness: the third turn has just completed with three entries in the
\* history and in each series.
C18_Witness ==
    /\ pc = "check"
    /\ game_state.turn_number = 3
    /\ Len(game_state.turn_history) = 3
    /\ Len(game_state.tension_levels) = 3
    /\ Len(game_state.choice_difficulty) = 3
    /\ Len(game_state.enjoyment_scores) = 3

\* a Retreat card in either side's actions of a history entry
RetreatPlayed(entry) ==
    \/ \E i \in 1..Len(entry.challenger_actions) : entry.challenger_actions[i] = RETREAT
    \/ \E i \in 1..Len(entry.defender_actions) : entry.defender_actions[i] = RETREAT

\* C19: the turn counter starts at 0 and is incremented before each turn is
\* resolved: the k-th turn played is resolved with turn number k and its
\* history entry has turn = k; so a Retreat in the first three turns played is
\* never flagged as an honor violation and a Retreat in the fourth always is.
C19_TurnCounter ==
    /\ (pc = "loop" /\ iteration = 0) => game_state.turn_number = 0
    /\ pc = "update" =>
          /\ turn_result.turn = iteration
          /\ turn_result.turn = Len(game_state.turn_history) + 1
    /\ \A k \in 1..Len(game_state.turn_history) :
          /\ game_state.turn_history[k].turn = k
          /\ k <= 3 => game_state.turn_history[k].honor_violation = None
          /\ (k = 4 /\ RetreatPlayed(game_state.turn_history[k]))
                => game_state.turn_history[k].honor_violation \in {CHALLENGER, DEFENDER}

\* C19 witness: a game in which the challenger retreated on the third turn
\* unflagged and on the fourth turn flagged.
C19_Witness ==
    /\ Len(game_state.turn_history) = 4
    /\ game_state.turn_history[3].challenger_actions = <<RETREAT>>
    /\ game_state.turn_history[3].honor_violation = None
    /\ game_state.turn_history[4].challenger_actions = <<RETREAT>>
    /\ game_state.turn_history[4].turn = 4
    /\ game_state.turn_history[4].honor_violation = CHALLENGER

\* the first turn of a game, from Apart with both players at health 3 and
\* strength 2, in which the challenger plays Advance, Attack and the defender
\* plays nothing
Scenario1 ==
    /\ iteration = 1
    /\ challenger_decision # NoDecision
    /\ defender_decision # NoDecision
    /\ challenger_decision.actions = <<ADVANCE, ATTACK>>
    /\ defender_decision.actions = << >>

\* C20: scenario 1: from Apart with both players at health 3 and strength 2,
\* challenger = [Advance, Attack] and defender = [] give new position
\* SwordRange, 3 damage to the defender and 0 to the challenger; after the
\* resource update the defender's health is 0 and check_victory returns
\* CHALLENGER, so the game ends on its first turn.
C20_Scenario1 ==
    Scenario1 =>
        /\ pc \in {"update", "record", "check", "complete", "done"} =>
              /\ turn_result.position_before = APART
              /\ turn_result.new_position = SWORD
              /\ turn_result.damage_dealt = [challenger |-> 0, defender |-> 3]
        /\ pc \in {"record", "check", "complete", "done"} =>
              /\ game_state.position = SWORD
              /\ game_state.defender.health = 0
              /\ game_state.challenger.health = 3
        /\ pc \in {"complete", "done"} => winner = "CHALLENGER"
        /\ pc # "loop"

\* C20 witness: the game is over after one turn with the challenger as
\* winner.
C20_Witness ==
    /\ Scenario1
    /\ pc = "done"
    /\ game_state.turn_number = 1
    /\ game_state.defender.health = 0
    /\ winner = "CHALLENGER"

\* every turn played so far had two empty decisions
AllEmptySoFar ==
    \A k \in 1..Len(game_state.turn_history) :
        /\ game_state.turn_history[k].challenger_actions = << >>
        /\ game_state.turn_history[k].defender_actions = << >>

CardsHeld(gs) == gs.challenger.technique_cards \o gs.defender.technique_cards

\* C24: after game initialization each player holds exactly 2 technique
\* cards, the four cards held are pairwise distinct names of the 8 known
\* technique cards, and the assignments never change during the game.
C24_TechniqueCards ==
    [][ pc' = "play" =>
            /\ Len(game_state'.challenger.technique_cards) = 2
            /\ Len(game_state'.defender.technique_cards) = 2
            /\ \A i, j \in 1..4 :
                   i # j => CardsHeld(game_state')[i] # CardsHeld(game_state')[j]
            /\ \A i \in 1..4 :
                   CardsHeld(game_state')[i] \in
                       {"Tsubame Gaeshi", "Mizu no Kokoro", "Kuzushi", "Ai-Uchi",
                        "Irimi", "Ma-ai", "Mushin", "Nagashi"}
            /\ pc = "play" => CardsHeld(game_state') = CardsHeld(game_state)
      ]_vars

\* C24 witness: two turns into a game the players hold the cards they
\* drafted from a shuffle that put the last known card first.
C24_Witness ==
    /\ pc = "play"
    /\ game_state.turn_number = 2
    /\ game_state.challenger.technique_cards = <<"Nagashi", "Ai-Uchi">>
    /\ game_state.defender.technique_cards = <<"Mushin", "Tsubame Gaeshi">>

\* a turn result without the technique names
Mechanics(entry) ==
    <<entry.turn, entry.challenger_actions, entry.defender_actions,
      entry.position_before, entry.position_after, entry.damage_dealt,
      entry.honor_violation>>

\* C22: declared techniques are inert: two runs of the game from the same
\* state with the same cards but different technique names (known cards,
\* names of no card, or none) have at every turn the same new position,
\* damage, honor marker, health, momentum, balance and verdict; the name
\* declared appears verbatim in the turn result and no name is rejected.
C22_TechniquesInert ==
    /\ game_state.turn_number = twin_state.turn_number
    /\ game_state.position = twin_state.position
    /\ Resources(game_state) = Resources(twin_state)
    /\ game_check_victory(game_state) = game_check_victory(twin_state)
    /\ Len(game_state.turn_history) = Len(twin_state.turn_history)
    /\ Len(game_state.turn_history) = game_state.turn_number
    /\ \A k \in 1..Len(game_state.turn_history) :
           Mechanics(game_state.turn_history[k]) = Mechanics(twin_state.turn_history[k])
    /\ game_state.turn_history # << >> =>
           /\ LastTurn(game_state).challenger_technique = challenger_decision.technique
           /\ LastTurn(game_state).defender_technique = defender_decision.technique

\* C22 witness: the challenger has advanced and struck declaring Kuzushi in
\* one run and a name that is no card in the other, and both runs show the
\* same damage.
C22_Witness ==
    /\ game_state.turn_history # << >>
    /\ LastTurn(game_state).challenger_technique = "Kuzushi"
    /\ LastTurn(twin_state).challenger_technique = "Hiten Mitsurugi"
    /\ LastTurn(game_state).defender_technique = None
    /\ LastTurn(twin_state).defender_technique = "Ma-ai"
    /\ LastTurn(game_state).challenger_actions = <<ADVANCE, ATTACK>>
    /\ LastTurn(game_state).damage_dealt.defender > 0
    /\ LastTurn(twin_state).damage_dealt = LastTurn(game_state).damage_dealt
    /\ game_state.defender.health = twin_state.defender.health

\* the turn counted last is fully applied: state updated, history appended,
\* metrics recorded
TurnFinished(gs) ==
    /\ Len(gs.turn_history) = gs.turn_number
    /\ Len(gs.tension_levels) = gs.turn_number
    /\ Len(gs.choice_difficulty) = gs.turn_number
    /\ Len(gs.enjoyment_scores) = gs.turn_number

\* C23: within one game turn resolution is strictly sequential: the turn is
\* resolved only once both players' decisions for it are in, the next turn
\* (its counter increment and decision requests) starts only after the
\* previous turn's state update, history append and metric recording have
\* finished, and turn_number is written only where run_turn counts the turn.
C23_Sequential ==
    [][ /\ (pc = "decide" /\ pc' = "update") =>
              /\ challenger_decision # NoDecision
              /\ defender_decision # NoDecision
              /\ turn_result'.turn = game_state.turn_number
              /\ Len(game_state.turn_history) = game_state.turn_number - 1
        /\ (pc = "loop" /\ pc' = "decide") =>
              /\ TurnFinished(game_state)
              /\ challenger_decision' = NoDecision
              /\ defender_decision' = NoDecision
        /\ game_state'.turn_number # game_state.turn_number =>
              /\ pc = "loop" /\ pc' = "decide"
              /\ game_state'.turn_number = game_state.turn_number + 1
      ]_vars

\* C23 witness: the second turn has been resolved from two decisions while
\* the game state holds the finished first turn.
C23_Witness ==
    /\ pc = "update"
    /\ game_state.turn_number = 2
    /\ turn_result.turn = 2
    /\ challenger_decision # NoDecision
    /\ defender_decision # NoDecision
    /\ Len(game_state.turn_history) = 1
    /\ Len(game_state.tension_levels) = 1
    /\ Len(game_state.enjoyment_scores) = 1

\* C25: update_emotional_state picks the label by strict priority: own
\* health = 1 gives "desperate"; otherwise tension above the persona's
\* threshold gives "tense"; otherwise opponent health = 1 gives "excited";
\* otherwise "focused"; one label is set per call and the higher-priority
\* condition wins when several hold.
C25_EmotionPriority ==
    pc = "returned" =>
        LET label == personas[1].emotional_state
            low == game_state.challenger.health = 1
            pressed == challenger_decision.tension > personas[1].tension_threshold
            scenting == game_state.defender.health = 1
        IN /\ label \in {"desperate", "tense", "excited", "focused"}
           /\ low => label = "desperate"
           /\ (~low /\ pressed) => label = "tense"
           /\ (~low /\ ~pressed /\ scenting) => label = "excited"
           /\ (~low /\ ~pressed /\ ~scenting) => label = "focused"

\* C25 witness: all three conditions held at once and the label is
\* "desperate".
C25_Witness ==
    /\ pc = "returned"
    /\ game_state.challenger.health = 1
    /\ challenger_decision.tension > personas[1].tension_threshold
    /\ game_state.defender.health = 1
    /\ personas[1].emotional_state = "desperate"

\* C26: get_next_state never modifies the GameState it is given: after the
\* call the original's turn_number, position, both players' health,
\* momentum and balance and turn_history are as before, and the returned
\* state has turn_number one higher and a turn_history one entry longer.
C26_NextStateCopies ==
    [][ (pc = "play" /\ pc' = "returned") =>
            /\ game_state'.turn_number = game_state.turn_number
            /\ game_state'.position = game_state.position
            /\ Resources(game_state') = Resources(game_state)
            /\ game_state'.turn_history = game_state.turn_history
            /\ next_state'.turn_number = game_state.turn_number + 1
            /\ Len(next_state'.turn_history) = Len(game_state.turn_history) + 1
      ]_vars

\* C26 witness: a call on a state two turns into the game returned a state
\* in which the defender lost health and the position changed, while the
\* original still shows two turns, the old position and the old health.
C26_Witness ==
    /\ pc = "returned"
    /\ game_state.turn_number = 2
    /\ Len(game_state.turn_history) = 2
    /\ next_state.turn_number = 3
    /\ Len(next_state.turn_history) = 3
    /\ next_state.position # game_state.position
    /\ next_state.defender.health < game_state.defender.health
    /\ next_state.challenger.momentum # game_state.challenger.momentum

\* C27: in an orchestrated simulation, once check_victory returns a verdict
\* after a turn, no further turn is run for that game and the winner of the
\* game summary is that verdict.
C27_VerdictEndsGame ==
    [][ /\ (pc = "check" /\ winner' # None) => pc' = "complete"
        /\ winner # None =>
              /\ pc = "complete" /\ pc' = "done"
              /\ game_state' = game_state
              /\ winner' = winner
      ]_vars

\* C27 witness: the game was decided on its fourth turn by the challenger's
\* honor violation, four turns were run and the summary names the defender.
C27_Witness ==
    /\ pc = "done"
    /\ winner = "DEFENDER"
    /\ iteration = 4
    /\ game_state.turn_number = 4
    /\ Len(game_state.turn_history) = 4
    /\ game_state.challenger.health > 0

\* C28: an honor violation ends the game on the turn it is committed: a
\* turn numbered above 3 in which either decision contains Retreat is the
\* last turn of its game, the verdict after it is never None, and no history
\* holds such a turn followed by another.
C28_ViolationEndsGame ==
    \A k \in 1..Len(game_state.turn_history) :
        (game_state.turn_history[k].turn > 3 /\ RetreatPlayed(game_state.turn_history[k]))
        => /\ k = Len(game_state.turn_history)
           /\ game_state.turn_number = k
           /\ game_check_victory(game_state) # None
           /\ pc \in {"record", "check", "complete", "done"}
           /\ pc \in {"complete", "done"} => winner # None

\* C28 witness: the defender retreated on the fifth turn with both players
\* alive, and the game ended there with the challenger as winner.
C28_Witness ==
    /\ pc = "done"
    /\ Len(game_state.turn_history) = 5
    /\ game_state.turn_history[5].defender_actions = <<RETREAT>>
    /\ game_state.turn_history[5].challenger_actions = << >>
    /\ game_state.challenger.health > 0
    /\ game_state.defender.health > 0
    /\ winner = "CHALLENGER"

\* C29: every orchestrated simulation terminates: when the decisions of
\* both players are returned each turn, the game runs at most MAX_TURNS = 10
\* turns, turn_number never exceeds 10, and the summary is produced, also
\* when no verdict was reached (winner None).
C29_Terminates ==
    /\ <>(pc = "done")
    /\ [](/\ game_state.turn_number <= 10
          /\ iteration <= 10
          /\ Len(game_state.turn_history) <= 10)

\* C29 witness: ten turns were played without a verdict and the summary was
\* produced with winner None.
C29_Witness ==
    /\ pc = "done"
    /\ winner = None
    /\ iteration = 10
    /\ game_state.turn_number = 10
    /\ Len(game_state.turn_history) = 10

\* C30: for a decision that contains both Advance and Retreat,
\* apply_action_effects applies only the Advance effect (momentum + 1,
\* balance - 1, clamped) and not also the Retreat effect (momentum - 1).
C30_AdvanceOnly ==
    [][ (/\ pc = "call"
         /\ \E i \in 1..Len(challenger_decision.actions) :
                challenger_decision.actions[i] = ADVANCE
         /\ \E i \in 1..Len(challenger_decision.actions) :
                challenger_decision.actions[i] = RETREAT) =>
            /\ game_state'.challenger.momentum =
                   min(3, game_state.challenger.momentum + 1)
            /\ game_state'.challenger.balance =
                   max(0, game_state.challenger.balance - 1)
      ]_vars

\* a decision cut down to its first movement card: the first Advance or
\* Retreat of the sequence alone, or nothing
FirstMovementOnly(actions) ==
    IF \A i \in 1..Len(actions) : actions[i] \notin {ADVANCE, RETREAT}
      THEN << >>
      ELSE LET i == CHOOSE k \in 1..Len(actions) :
                        /\ actions[k] \in {ADVANCE, RETREAT}
                        /\ \A j \in 1..(k - 1) : actions[j] \notin {ADVANCE, RETREAT}
           IN <<actions[i]>>

\* C31: malformed decisions are never rejected: for any action sequence
\* (both Advance and Retreat, more than 2 cards, duplicates) resolve_turn and
\* update_both_players complete with a result and no error state, and the
\* position is the one decided by the first movement card of each side's
\* sequence, later movement cards being ignored.
C31_MalformedAccepted ==
    /\ pc = "call" => ENABLED ResolveTurn
    /\ pc = "returned" => ENABLED UpdateBothPlayers
    /\ pc \in {"returned", "updated"} =>
          /\ turn_result[1] # NoTurn
          /\ turn_result[1].challenger_actions = challenger_decision.actions
          /\ turn_result[1].defender_actions = defender_decision.actions
          /\ turn_result[2] \in {"Apart", "Sword Range", "Close Combat"}
          /\ turn_result[1].position_after = turn_result[2]
          /\ turn_result[2] =
                resolve_position(game_state.position,
                                 FirstMovementOnly(challenger_decision.actions),
                                 FirstMovementOnly(defender_decision.actions))
    /\ pc = "updated" =>
          /\ game_state.challenger.health \in 0..3
          /\ game_state.defender.health \in 0..3
          /\ game_state.defender.health =
                max(0, 3 - turn_result[1].damage_dealt.defender)

\* C31 witness: at SwordRange the challenger played Advance, Retreat, Attack
\* against a doubled Defend; the Advance decided the position (Close), the
\* turn was resolved and the update applied its damage.
C31_Witness ==
    /\ pc = "updated"
    /\ game_state.position = SWORD
    /\ challenger_decision.actions = <<ADVANCE, RETREAT, ATTACK>>
    /\ defender_decision.actions = <<DEFEND, DEFEND>>
    /\ turn_result[2] = CLOSE
    /\ turn_result[1].damage_dealt.defender = 2
    /\ game_state.defender.health = 1

\* C32: whenever check_victory names a winner, that winner is alive: a
\* CHALLENGER verdict implies challenger health > 0 and a DEFENDER verdict
\* implies defender health > 0, whether the verdict came from the healths or
\* from an honor violation.
C32_WinnerAlive ==
    pc \in {"returned", "again"} =>
        /\ winner = "CHALLENGER" => game_state.challenger.health > 0
        /\ winner = "DEFENDER" => game_state.defender.health > 0
        /\ winner \in {"CHALLENGER", "DEFENDER", "DRAW", None}

\* C32 witness: the defender violated the honor rule on the turn that brought
\* the challenger to 0; the verdict is DEFENDER and the defender is alive.
C32_Witness ==
    /\ pc = "returned"
    /\ winner = "DEFENDER"
    /\ game_state.challenger.health = 0
    /\ game_state.defender.health = 1
    /\ LastMarker(game_state) = DEFENDER

\* a verdict for the challenger that the honor marker decided
C32_WitnessHonor ==
    /\ pc = "returned"
    /\ winner = "CHALLENGER"
    /\ game_state.challenger.health = 1
    /\ game_state.defender.health = 3
    /\ LastMarker(game_state) = DEFENDER

\* C33: health never increases during a game: for each player the health
\* after any turn is at most the health before it, and it has dropped by
\* exactly min(health, damage dealt to that player in the turn).
C33_HealthMonotone ==
    [][ LET dealt == LastTurn(game_state').damage_dealt
            hc == game_state.challenger.health
            hd == game_state.defender.health
        IN /\ game_state'.challenger.health <= hc
           /\ game_state'.defender.health <= hd
           /\ hc - game_state'.challenger.health =
                  (IF hc <= dealt.challenger THEN hc ELSE dealt.challenger)
           /\ hd - game_state'.defender.health =
                  (IF hd <= dealt.defender THEN hd ELSE dealt.defender)
           /\ dealt.challenger >= 0 /\ dealt.defender >= 0
      ]_vars

\* C33 witness: in the second turn the challenger, at health 1, was dealt 3
\* and lost 1; the defender, at health 2, was dealt 2 and lost 2.
C33_Witness ==
    /\ game_state.turn_number = 2
    /\ game_state.turn_history[1].damage_dealt = [challenger |-> 2, defender |-> 1]
    /\ game_state.turn_history[2].damage_dealt = [challenger |-> 3, defender |-> 2]
    /\ game_state.challenger.health = 0
    /\ game_state.defender.health = 0

\* C34: the position never jumps from Apart to Close in one turn: from Apart
\* a turn yields Apart or SwordRange only, from SwordRange any of the three
\* positions, and from Close the only two-band move is Close to Apart, which
\* happens exactly when both sides retreat.
C34_NoJump ==
    pc = "returned" =>
        /\ game_state.position = APART =>
              turn_result[2] \in {APART, SWORD}
        /\ game_state.position = SWORD =>
              turn_result[2] \in {APART, SWORD, CLOSE}
        /\ game_state.position = CLOSE =>
              /\ turn_result[2] \in {APART, SWORD, CLOSE}
              /\ turn_result[2] = APART <=>
                    (ChallengerMove = RETREAT /\ DefenderMove = RETREAT)

\* C34 witness: at Close both sides retreat and the position becomes Apart.
C34_Witness ==
    /\ pc = "returned"
    /\ game_state.position = CLOSE
    /\ challenger_decision.actions = <<RETREAT, DEFEND>>
    /\ defender_decision.actions = <<ATTACK, RETREAT>>
    /\ turn_result[2] = APART

\* at Apart both sides advance and the position becomes SwordRange
C34_WitnessApart ==
    /\ pc = "returned"
    /\ game_state.position = APART
    /\ challenger_decision.actions = <<ADVANCE>>
    /\ defender_decision.actions = <<ADVANCE>>
    /\ turn_result[2] = SWORD

\* from SwordRange each of the three positions is reached
C34_WitnessSwordStays ==
    pc = "returned" /\ game_state.position = SWORD /\ turn_result[2] = SWORD
C34_WitnessSwordCloses ==
    pc = "returned" /\ game_state.position = SWORD /\ turn_result[2] = CLOSE
C34_WitnessSwordParts ==
    pc = "returned" /\ game_state.position = SWORD /\ turn_result[2] = APART

\* C35: the turn history is append-only and chained: earlier entries are
\* never modified or removed, the first entry's position_before is Apart,
\* each later entry's position_before equals the previous entry's
\* position_after, and after each completed turn the position of the game
\* state equals the last entry's position_after.
C35_HistoryChained ==
    /\ [][ /\ Len(game_state'.turn_history) >= Len(game_state.turn_history)
           /\ Len(game_state'.turn_history) <= Len(game_state.turn_history) + 1
           /\ \A k \in 1..Len(game_state.turn_history) :
                  game_state'.turn_history[k] = game_state.turn_history[k]
         ]_vars
    /\ [](/\ game_state.turn_history # << >> =>
                /\ game_state.turn_history[1].position_before = "Apart"
                /\ game_state.position =
                       game_state.turn_history[Len(game_state.turn_history)].position_after
          /\ \A k \in 2..Len(game_state.turn_history) :
                game_state.turn_history[k].position_before =
                    game_state.turn_history[k - 1].position_after)

\* C35 witness: three turns took the game from Apart to SwordRange, on to
\* Close and back to SwordRange, each entry starting where the one before it
\* ended.
C35_Witness ==
    /\ pc = "play"
    /\ Len(game_state.turn_history) = 3
    /\ game_state.turn_history[1].position_before = APART
    /\ game_state.turn_history[1].position_after = SWORD
    /\ game_state.turn_history[2].position_before = SWORD
    /\ game_state.turn_history[2].position_after = CLOSE
    /\ game_state.turn_history[3].position_before = CLOSE
    /\ game_state.turn_history[3].position_after = SWORD
    /\ game_state.position = SWORD

\* the fields of a turn result: turn number, both action sequences, both
\* techniques, position before and after, damage dealt, honor marker
TurnResultFields(entry) ==
    <<entry.turn, entry.challenger_actions, entry.defender_actions,
      entry.challenger_technique, entry.defender_technique,
      entry.position_before, entry.position_after, entry.damage_dealt,
      entry.honor_violation>>

PersonaKept(persona) == <<persona.personality, persona.tension_threshold>>

\* C36: while the two players' decisions for a turn are acquired
\* concurrently, the only state written is each player's own persona
\* (emotional_state, confidence_level): position, turn_number, turn_history
\* and both players' health, momentum and balance are unchanged until both
\* decisions are in, so both decisions observe the same turn number and game
\* state under every interleaving of the two tasks.
C36_DecisionsIsolated ==
    [][ /\ (pc = "decide" /\ pc' = "decide") =>
              /\ game_state'.position = game_state.position
              /\ game_state'.turn_number = game_state.turn_number
              /\ game_state'.turn_history = game_state.turn_history
              /\ Resources(game_state') = Resources(game_state)
              /\ game_state' = game_state
              /\ PersonaKept(personas'[1]) = PersonaKept(personas[1])
              /\ PersonaKept(personas'[2]) = PersonaKept(personas[2])
              /\ challenger_decision' # challenger_decision =>
                    /\ personas'[2] = personas[2]
                    /\ defender_decision' = defender_decision
                    /\ challenger_decision'.tension =
                           calculate_tension(game_state.challenger, game_state)
              /\ defender_decision' # defender_decision =>
                    /\ personas'[1] = personas[1]
                    /\ challenger_decision' = challenger_decision
                    /\ defender_decision'.tension =
                           calculate_tension(game_state.defender, game_state)
        /\ (pc = "decide" /\ pc' = "update") =>
              /\ Len(game_state.turn_history) = game_state.turn_number - 1
              /\ challenger_decision.tension =
                     calculate_tension(game_state.challenger, game_state)
              /\ defender_decision.tension =
                     calculate_tension(game_state.defender, game_state)
              /\ turn_result'.turn = game_state.turn_number
              /\ turn_result'.position_before = game_state.position
      ]_vars

\* C36 witness: in the second turn the defender's task has returned a
\* Retreat before the challenger's; the defender's persona has changed, the
\* game state still shows the first turn's outcome and the challenger's
\* decision is still awaited.
C36_Witness ==
    /\ pc = "decide"
    /\ game_state.turn_number = 2
    /\ Len(game_state.turn_history) = 1
    /\ challenger_decision = NoDecision
    /\ defender_decision # NoDecision
    /\ defender_decision.actions = <<RETREAT>>
    /\ personas[2].emotional_state = "focused"
    /\ game_state.defender.momentum = 0
    /\ game_state.position = APART

\* the other interleaving: the challenger's task returned first
C36_WitnessChallengerFirst ==
    /\ pc = "decide"
    /\ game_state.turn_number = 2
    /\ challenger_decision # NoDecision
    /\ defender_decision = NoDecision

\* C37: the action list shown to a player marks Retreat as forbidden exactly
\* on the turns where the engine would flag it: in every turn of an
\* orchestrated game, get_available_actions labels Retreat FORBIDDEN if and
\* only if check_honor_violation returns true for a decision with Retreat
\* resolved in that same turn.
C37_ForbiddenLabel ==
    \A i \in 1..2 :
        available_actions[i] # None =>
            LET forbidden ==
                    available_actions[i] =
                        "Retreat (FORBIDDEN after turn 3 - honor violation!)"
            IN /\ available_actions[i] \in
                      {"Retreat", "Retreat (FORBIDDEN after turn 3 - honor violation!)"}
               /\ forbidden <=> check_honor_violation(game_state.turn_number, <<RETREAT>>)
               /\ forbidden <=> game_state.turn_number > 3
               /\ (/\ pc \in {"update", "record", "check"}
                   /\ (\/ \E k \in 1..Len(turn_result.challenger_actions) :
                             turn_result.challenger_actions[k] = RETREAT
                       \/ \E k \in 1..Len(turn_result.defender_actions) :
                             turn_result.defender_actions[k] = RETREAT))
                     => /\ turn_result.turn = game_state.turn_number
                        /\ forbidden <=> turn_result.honor_violation # None

\* C37 witness: on the fourth turn the challenger was shown Retreat as
\* forbidden, played it, and the turn was resolved with the challenger's
\* honor violation.
C37_Witness ==
    /\ pc = "update"
    /\ game_state.turn_number = 4
    /\ available_actions[1] = RETREAT_FORBIDDEN
    /\ challenger_decision.actions = <<RETREAT>>
    /\ turn_result.honor_violation = CHALLENGER

\* on the third turn the defender was shown Retreat unmarked, played it, and
\* the turn was resolved without a violation
C37_WitnessTurn3 ==
    /\ pc = "update"
    /\ game_state.turn_number = 3
    /\ available_actions[2] = RETREAT_ALLOWED
    /\ defender_decision.actions = <<RETREAT>>
    /\ turn_result.honor_violation = None

\* C38: update_both_players is behaviourally equivalent to the original
\* update logic it replaces (_update_game_state): for every pair of player
\* states, every pair of action sequences and every damage record, both leave
\* each player with the same health, momentum and balance.
C38_UpdateEquivalent ==
    pc = "compared" => Resources(game_state) = Resources(twin_state)

====
